---- MODULE Spec2Model ----
(***************************************************************************)
(* Model of transit-network-analysis-tools/parallel_odcm.py:               *)
(* ParallelODCalculator (chunking, parallel dispatch, collection,           *)
(* post-processing) and ODCostMatrix (one chunk's solve).                   *)
(***************************************************************************)
EXTENDS Integers, Sequences, FiniteSets, TLC

\* ------------------------------------------------------------------ bounds
MaxOid == 3           \* SpecPartition: ObjectIDs are drawn from 0..MaxOid
MaxChunkSize == 3     \* SpecPartition: chunk sizes are drawn from 1..MaxChunkSize
MaxTimes == 2         \* number of start times in the time window
MaxProcesses == 2     \* max_processes is drawn from 1..MaxProcesses
MaxJobs == 3          \* Spec: inputs are admitted when total_jobs <= MaxJobs
MaxSamples == 3       \* SpecAggregate: number of start times in the time window
MaxWindow == 4        \* SpecConstruct: the window ends up to MaxWindow minutes after its start
MaxIncrement == 3     \* SpecConstruct: the increment is at most MaxIncrement minutes
MaxMessages == 3      \* SpecMessages: the engine reports up to MaxMessages messages

\* ------------------------------------------------------- program constants
NullWeight == -1      \* stands for a NULL value of the weight field
AnalysisDate == 20220428      \* date of the start times, as in the example file name
FirstStartMinute == 555       \* 09:15, the time of day in the example file name
TimeIncrement == 15           \* minutes between two start times of the window

VARIABLES
    \* arguments of ParallelODCalculator.__init__
    tool, origins, destinations, weight_field, max_origins, max_destinations,
    max_processes, time_window, travel_mode, out_na_folder,
    \* what the routing engine did for each chunk (external collaborator)
    engine,
    \* attributes set by ParallelODCalculator.__init__
    start_times, dest_where, origin_ranges, destination_ranges, chunks, total_jobs,
    od_line_files,
    \* the folders made with os.mkdir, and the exception that reached the caller
    folders, error,
    \* the engine's diagnostics of one solve and what ODCostMatrix.solve makes of them
    messages,
    \* solve_od_in_parallel
    pc, completed_jobs, jobs, collected, uuid_count, fs, log, output

inputVars == <<tool, origins, destinations, weight_field, max_origins, max_destinations,
               max_processes, time_window, travel_mode, out_na_folder>>
initVars == <<start_times, dest_where, origin_ranges, destination_ranges, chunks, total_jobs,
              folders>>
poolVars == <<engine, jobs, uuid_count, fs>>
mainVars == <<od_line_files, pc, completed_jobs, collected, log, output, error>>
vars == <<inputVars, initVars, poolVars, mainVars, messages>>

\* ----------------------------------------------------------------- helpers
Min(S) == CHOOSE x \in S : \A y \in S : x <= y
Max(S) == CHOOSE x \in S : \A y \in S : x >= y

RECURSIVE SortedSeq(_)
SortedSeq(S) == IF S = {} THEN <<>> ELSE <<Min(S)>> \o SortedSeq(S \ {Min(S)})

Range(s) == {s[i] : i \in DOMAIN s}

RECURSIVE SumOver(_, _)
SumOver(S, f) == IF S = {} THEN 0
                 ELSE LET x == CHOOSE y \in S : TRUE IN f[x] + SumOver(S \ {x}, f)

\* ------------------------------------------------------------ tool selector
AccessibilityTool == "CalculateAccessibilityMatrix"
TravelTimeTool == "CalculateTravelTimeStatistics"

\* ------------------------------------------- _get_oid_ranges_for_input
WeightWhere == "weight_field IS NOT NULL and weight_field <> 0"

\* self.dest_where (lines 664-667)
DestWhere(wf) == IF wf THEN WeightWhere ELSE ""

\* Whether a feature with weight w satisfies the where clause
Satisfies(where, w) == IF where = "" THEN TRUE ELSE (w # NullWeight /\ w # 0)

\* arcpy.da.SearchCursor(input_fc, "OID@", where): the ObjectIDs of the rows
\* that satisfy the where clause, in ascending order. input_fc maps each
\* ObjectID to the value of its weight field.
SearchCursor(input_fc, where) ==
    SortedSeq({oid \in DOMAIN input_fc : Satisfies(where, input_fc[oid])})

RangeLoopInit == [ranges |-> <<>>, num_in_range |-> 0, current_range |-> <<0, 0>>]

\* One iteration of the for loop (lines 737-749)
RangeLoopStep(st, oid, max_chunk_size) ==
    LET low == IF st.num_in_range = 0 THEN oid ELSE st.current_range[1]
        n == st.num_in_range + 1
        cur == <<low, oid>>
    IN IF n = max_chunk_size
       THEN [ranges |-> Append(st.ranges, cur), num_in_range |-> 0,
             current_range |-> <<0, 0>>]
       ELSE [ranges |-> st.ranges, num_in_range |-> n, current_range |-> cur]

RECURSIVE RangeLoop(_, _, _)
RangeLoop(rows, st, max_chunk_size) ==
    IF rows = <<>> THEN st
    ELSE RangeLoop(Tail(rows), RangeLoopStep(st, Head(rows), max_chunk_size),
                   max_chunk_size)

\* A faulty close-out that appends the current range whether one is open or not
CloseLastRangeAlways(st) == Append(st.ranges, st.current_range)
\* After looping, the last range is closed out when current_range != [0, 0]
CloseLastRange(st) ==
    IF st.current_range # <<0, 0>> THEN Append(st.ranges, st.current_range)
    ELSE st.ranges

get_oid_ranges_for_input(input_fc, max_chunk_size, where) ==
    CloseLastRange(RangeLoop(SearchCursor(input_fc, where), RangeLoopInit,
                             max_chunk_size))

\* Origins carry no weight field of interest: every origin maps to 1
OriginFc(oids) == [oid \in oids |-> 1]

\* itertools.product(origin_ranges, destination_ranges, start_times), in its
\* enumeration order (the last factor varies fastest)
Product(ors, drs, sts) ==
    LET no == Len(ors)
        nd == Len(drs)
        nt == Len(sts)
    IN [k \in 1..(no * nd * nt) |->
          LET i == ((k - 1) \div (nd * nt)) + 1
              j == (((k - 1) \div nt) % nd) + 1
              t == ((k - 1) % nt) + 1
          IN <<ors[i], drs[j], sts[t]>>]

\* A faulty total_jobs that forgets the start times
TotalJobsWithoutTimes(ors, drs, sts) == Len(ors) * Len(drs)

TotalJobs(ors, drs, sts) == Len(ors) * Len(drs) * Len(sts)

\* --------------------------------------------------------------- file names
DigitChars == <<"0", "1", "2", "3", "4", "5", "6", "7", "8", "9">>

\* str(n) of a non-negative integer, one character per element
RECURSIVE Digits(_)
Digits(n) == IF n < 10 THEN <<DigitChars[n + 1]>>
             ELSE Digits(n \div 10) \o <<DigitChars[(n % 10) + 1]>>

\* %H, %M, %S: two digits, zero padded
Pad2(n) == <<DigitChars[(n \div 10) + 1], DigitChars[(n % 10) + 1]>>

\* A faulty time string that keeps the date only
TimeStringDateOnly(t) == Digits(AnalysisDate)

\* time_of_day.strftime("%Y%m%d_%H%M%S"); a start time is a minute of AnalysisDate
TimeString(t) ==
    Digits(AnalysisDate) \o <<"_">> \o Pad2(t \div 60) \o Pad2(t % 60) \o Pad2(0)

\* f"ODLines_O_{o[0]}_{o[1]}_"
OriginPrefix(o) ==
    <<"O", "D", "L", "i", "n", "e", "s", "_", "O", "_">>
        \o Digits(o[1]) \o <<"_">> \o Digits(o[2]) \o <<"_">>

\* out_filename of a chunk (lines 429-434) followed by ".csv" (line 440)
OutFilename(chunk) ==
    OriginPrefix(chunk[1])
        \o <<"D", "_">> \o Digits(chunk[2][1]) \o <<"_">> \o Digits(chunk[2][2])
        \o <<"_", "T", "_">> \o TimeString(chunk[3])
        \o <<".", "c", "s", "v">>

ScratchFolder == "scratch_folder"
OutNaFolder == "out_na_folder"

\* A faulty output location that is the scratch folder whatever the caller gave
OdOutputLocationScratch(out_na) == ScratchFolder
\* self.od_output_location (line 660)
OdOutputLocation(out_na) == IF out_na THEN OutNaFolder ELSE ScratchFolder

\* os.path.join(folder, name)
PathJoin(folder, name) == [dir |-> folder, name |-> name]

\* output_od_lines (line 440)
OutputOdLines(out_na, chunk) == PathJoin(OdOutputLocation(out_na), OutFilename(chunk))

\* A faulty log file name that leaves the job id out
LogFileShared(job_id) ==
    PathJoin(ScratchFolder, <<"O", "D", "C", "o", "s", "t", "M", "a", "t", "r", "i", "x", "_">>
                              \o <<".", "l", "o", "g">>)
\* self.log_file (line 210); the job id is the uuid's number
LogFile(job_id) ==
    PathJoin(ScratchFolder, <<"O", "D", "C", "o", "s", "t", "M", "a", "t", "r", "i", "x", "_">>
                              \o Digits(job_id) \o <<".", "l", "o", "g">>)

\* ord(c) of the characters file names are made of
CharCode(c) ==
    CASE c = "." -> 46
      [] c \in Range(DigitChars) -> 47 + (CHOOSE i \in 1..10 : DigitChars[i] = c)
      [] c = "C" -> 67 [] c = "D" -> 68 [] c = "L" -> 76 [] c = "M" -> 77
      [] c = "O" -> 79 [] c = "T" -> 84 [] c = "_" -> 95
      [] c = "a" -> 97 [] c = "c" -> 99 [] c = "e" -> 101 [] c = "g" -> 103
      [] c = "i" -> 105 [] c = "l" -> 108 [] c = "n" -> 110 [] c = "o" -> 111
      [] c = "r" -> 114 [] c = "s" -> 115 [] c = "t" -> 116 [] c = "v" -> 118
      [] c = "x" -> 120

\* a < b for two strings (Python's str comparison)
RECURSIVE StrLess(_, _)
StrLess(a, b) ==
    IF b = <<>> THEN FALSE
    ELSE IF a = <<>> THEN TRUE
    ELSE IF Head(a) = Head(b) THEN StrLess(Tail(a), Tail(b))
    ELSE CharCode(Head(a)) < CharCode(Head(b))

\* a < b for two paths: the folder first, then the file name
PathLess(a, b) ==
    IF a.dir = b.dir THEN StrLess(a.name, b.name)
    ELSE a.dir = OutNaFolder /\ b.dir = ScratchFolder

\* sorted(paths): insertion into an ascending list
RECURSIVE Sorted(_)
Insert(p, s) ==
    LET k == Cardinality({i \in DOMAIN s : ~PathLess(p, s[i])})
    IN SubSeq(s, 1, k) \o <<p>> \o SubSeq(s, k + 1, Len(s))
Sorted(s) == IF s = <<>> THEN <<>> ELSE Insert(Head(s), Sorted(Tail(s)))

\* s.startswith(prefix)
StartsWith(s, prefix) ==
    Len(prefix) <= Len(s) /\ SubSeq(s, 1, Len(prefix)) = prefix

\* ------------------------------------------------------------ aggregation
\* pd.read_csv(od_file): the rows of a result file on disk
ReadCsv(disk, path) == disk[path].rows

\* df["TimesReached"] = 1, indexed by (OriginOID, DestinationOID)
TimesReachedOne(rows) == [p \in {<<r[1], r[2]>> : r \in rows} |-> 1]

\* A faulty merge that concatenates without summing the duplicates
ConcatKeepFirst(a, b) ==
    [p \in (DOMAIN a) \cup (DOMAIN b) |-> IF p \in DOMAIN a THEN a[p] ELSE b[p]]

\* pd.concat([result_df, df]).groupby(["OriginOID", "DestinationOID"]).sum()
ConcatSum(a, b) ==
    [p \in (DOMAIN a) \cup (DOMAIN b) |->
        (IF p \in DOMAIN a THEN a[p] ELSE 0) + (IF p \in DOMAIN b THEN b[p] ELSE 0)]

\* The loop over self.od_line_files (lines 838-859)
RECURSIVE CombineFiles(_, _, _)
CombineFiles(disk, files, result_df) ==
    IF files = <<>> THEN result_df
    ELSE CombineFiles(disk, Tail(files),
                      ConcatSum(result_df, TimesReachedOne(ReadCsv(disk, Head(files)))))

Percents == {10, 20, 30, 40, 50, 60, 70, 80, 90}

\* A quotient a / b of the statistics, kept exact; the number 0 is Ratio(0, 1)
Ratio(a, b) == [num |-> a, den |-> b]

\* 100.0 * column / total_dests followed by fillna(0) (lines 902, 920-922): a
\* missing sum is NaN and becomes 0, and so does 0 / 0; 0 / b is 0; the
\* quotient a / 0 of a non-zero a is infinite and stays Ratio(a, 0)
Divide(a, b) == IF a = 0 THEN Ratio(0, 1) ELSE Ratio(a, b)

\* A faulty total that counts the rows of the destinations with a weight field too
TotalDestsCountingRows(dests, wf) == Cardinality(DOMAIN dests)

\* total_dests (lines 874 and 889): NULL weights are skipped by the sum
TotalDestsOf(dests, wf) ==
    IF wf THEN SumOver(DOMAIN dests,
                       [d \in DOMAIN dests |-> IF dests[d] = NullWeight THEN 0 ELSE dests[d]])
    ELSE Cardinality(DOMAIN dests)

\* A faulty sample count: the number of result files instead of start times
SampleCountOfFiles(sts, files) == Len(files)

\* len(self.start_times) in the threshold (line 917)
SampleCount(sts, files) == Len(sts)
\* A faulty Weight column that counts every row as 1, weight field or not
WeightOfUniform(dests, wf, d) == 1

\* The Weight column of a result row (lines 878 and 886)
WeightOf(dests, wf, d) == IF wf THEN dests[d] ELSE 1

\* A faulty threshold that is rounded down to an integer before the comparison
WeightReachedFloor(result_df, dests, wf, o, n_times, perc) ==
    LET hit == {p \in DOMAIN result_df :
                    p[1] = o /\ result_df[p] >= (n_times * perc) \div 100}
    IN SumOver(hit, [p \in hit |-> WeightOf(dests, wf, p[2])])

\* A faulty threshold test that sums the pairs below the threshold
WeightReachedBelow(result_df, dests, wf, o, n_times, perc) ==
    LET hit == {p \in DOMAIN result_df :
                    p[1] = o /\ result_df[p] * 100 <= n_times * perc}
    IN SumOver(hit, [p \in hit |-> WeightOf(dests, wf, p[2])])

\* result_df[cond].groupby("OriginOID")["Weight"].sum() for one origin, cond
\* being TimesReached >= threshold with threshold = n_times * perc / 100
WeightReached(result_df, dests, wf, o, n_times, perc) ==
    LET hit == {p \in DOMAIN result_df :
                    p[1] = o /\ result_df[p] * 100 >= n_times * perc}
    IN SumOver(hit, [p \in hit |-> WeightOf(dests, wf, p[2])])

\* A faulty TotalDests that asks for more than one instant
TotalReachedTwice(result_df, dests, wf, o) ==
    LET hit == {p \in DOMAIN result_df : p[1] = o /\ result_df[p] > 1}
    IN SumOver(hit, [p \in hit |-> WeightOf(dests, wf, p[2])])
\* TotalDests: rows with TimesReached > 0 (line 900)
TotalReached(result_df, dests, wf, o) ==
    LET hit == {p \in DOMAIN result_df : p[1] = o /\ result_df[p] > 0}
    IN SumOver(hit, [p \in hit |-> WeightOf(dests, wf, p[2])])

\* A faulty fallback that leaves the fields of an absent origin NULL
NullRecord ==
    [TotalDests |-> NullWeight, PercDests |-> Ratio(NullWeight, 1),
     DsAL |-> [perc \in Percents |-> NullWeight],
     PsAL |-> [perc \in Percents |-> Ratio(NullWeight, 1)]]

\* new_row = [oid] + [0] * len(field_defs) (lines 934-936)
ZeroRecord ==
    [TotalDests |-> 0, PercDests |-> Ratio(0, 1),
     DsAL |-> [perc \in Percents |-> 0], PsAL |-> [perc \in Percents |-> Ratio(0, 1)]]

\* _calculate_accessibility_matrix_outputs: the fields written to each origin
calculate_accessibility_matrix_outputs(disk, files, origs, dests, wf, n_times) ==
    LET result_df == CombineFiles(disk, files, << >>)
        total_dests == TotalDestsOf(dests, wf)
        unique == {p[1] : p \in DOMAIN result_df}
    IN [oid \in origs |->
          IF oid \in unique
          THEN [TotalDests |-> TotalReached(result_df, dests, wf, oid),
                PercDests |-> Divide(100 * TotalReached(result_df, dests, wf, oid),
                                    total_dests),
                DsAL |-> [perc \in Percents |->
                            WeightReached(result_df, dests, wf, oid, n_times, perc)],
                PsAL |-> [perc \in Percents |->
                            Divide(100 * WeightReached(result_df, dests, wf, oid, n_times,
                                                      perc), total_dests)]]
          ELSE ZeroRecord]

\* A faulty grouping that reads every result file for every origin range
FilesOfAllRanges(files, origin_range) == files

\* A faulty grouping that matches the lower bound of the origin range only
FilesOfLowerBound(files, origin_range) ==
    SelectSeq(files, LAMBDA f :
        StartsWith(f.name, <<"O", "D", "L", "i", "n", "e", "s", "_", "O", "_">>
                              \o Digits(origin_range[1])))
\* files_for_origin_range (lines 958-962)
FilesForOriginRange(files, origin_range) ==
    SelectSeq(files, LAMBDA f : StartsWith(f.name, OriginPrefix(origin_range)))

\* pd.concat(map(read_csv, files)): the rows of the files, one entry per file row
ConcatRows(disk, files) ==
    UNION {{<<i, r>> : r \in ReadCsv(disk, files[i])} : i \in DOMAIN files}

\* (o1, d1) < (o2, d2): the order of the groupby keys
PairLess(a, b) == a[1] < b[1] \/ (a[1] = b[1] /\ a[2] < b[2])

RECURSIVE SortedPairs(_)
SortedPairs(S) ==
    IF S = {} THEN <<>>
    ELSE LET m == CHOOSE x \in S : \A y \in S \ {x} : PairLess(x, y)
         IN <<m>> \o SortedPairs(S \ {m})

\* df.groupby(["OriginOID", "DestinationOID"]).agg(count, min, max, mean) of the
\* files of one origin range; the mean is the Ratio sum / count
StatsOf(disk, files) ==
    LET df == ConcatRows(disk, files)
        keys == SortedPairs({<<e[2][1], e[2][2]>> : e \in df})
        times(k) == {e \in df : e[2][1] = k[1] /\ e[2][2] = k[2]}
    IN [i \in DOMAIN keys |->
          LET grp == times(keys[i])
              vals == {e[2][3] : e \in grp}
          IN [OriginOID |-> keys[i][1], DestinationOID |-> keys[i][2],
              count |-> Cardinality(grp), min |-> Min(vals), max |-> Max(vals),
              mean |-> Ratio(SumOver(grp, [e \in grp |-> e[2][3]]), Cardinality(grp))]]

\* The loop over self.origin_ranges (lines 957-986): the rows of the output CSV
RECURSIVE TravelTimeRows(_, _, _)
TravelTimeRows(disk, files, oranges) ==
    IF oranges = <<>> THEN <<>>
    ELSE LET mine == FilesForOriginRange(files, Head(oranges))
         IN (IF mine = <<>> THEN <<>> ELSE StatsOf(disk, mine))
                \o TravelTimeRows(disk, files, Tail(oranges))

calculate_travel_time_statistics_outputs(disk, files, oranges) ==
    TravelTimeRows(disk, files, oranges)

\* ------------------------------------------------------------ ODCostMatrix
NoPath == PathJoin("", <<>>)

\* self.job_result as set by ODCostMatrix.__init__ (lines 231-237)
JobResultInit(job_id) ==
    [raised |-> FALSE, jobId |-> job_id, solveSucceeded |-> FALSE,
     outputLines |-> NoPath, logFile |-> LogFile(job_id)]

\* What a future holds when the worker raised instead of returning job_result
WorkerException(job_id) ==
    [raised |-> TRUE, jobId |-> job_id, solveSucceeded |-> FALSE,
     outputLines |-> NoPath, logFile |-> LogFile(job_id)]

\* A faulty validation that accepts every travel mode
validate_travel_mode_accept_all(tm) == TRUE

\* _validate_travel_mode (lines 322-328): TRUE when the check passes
validate_travel_mode(tm) == tm.impedance = tm.timeAttributeName

\* _select_inputs: the origins and the destinations of the chunk's layers
SelectedOrigins(origs, chunk) == {o \in origs : o >= chunk[1][1] /\ o <= chunk[1][2]}
SelectedDestinations(dests, where, chunk) ==
    {d \in DOMAIN dests : d >= chunk[2][1] /\ d <= chunk[2][2] /\ Satisfies(where, dests[d])}

\* The travel time the engine reports at a start time (travel-time tool)
EngineTravelTime(sts, t) == 10 * (CHOOSE i \in DOMAIN sts : sts[i] = t)

\* One row of the Lines output with self.output_fields (lines 198-201)
LineRow(tl, sts, o, d, t) ==
    IF tl = AccessibilityTool THEN <<o, d>> ELSE <<o, d, EngineTravelTime(sts, t)>>

\* The Lines outputs a successful solve of the chunk may produce: every selected
\* origin reaches every selected destination, or only the first pair is found
EngineLineChoices(tl, sts, selO, selD, t) ==
    { {LineRow(tl, sts, o, d, t) : o \in selO, d \in selD},
      {LineRow(tl, sts, Min(selO), Min(selD), t)} }

EngineUnknown == [result |-> "unknown", lines |-> {}]

\* A file on disk; complete tells that the writer closed it after its last row
CsvFile(rows, job_id) ==
    [kind |-> "csv", rows |-> rows, writers |-> {job_id}, complete |-> TRUE]
LogFileContent(job_id) ==
    [kind |-> "log", rows |-> {}, writers |-> {job_id}, complete |-> TRUE]

\* The result file left by _export_to_csv when it raises after open(path, "w")
\* and before the first row of the Lines cursor (lines 487-494)
PartialCsvFile(job_id) ==
    [kind |-> "csv", rows |-> {}, writers |-> {job_id}, complete |-> FALSE]

\* open(path, "w") / FileHandler(path) followed by the writes of job job_id
WriteFile(disk, path, content) ==
    [q \in (DOMAIN disk) \cup {path} |->
        IF q = path
        THEN IF path \in DOMAIN disk
             THEN [content EXCEPT !.writers = content.writers \cup disk[path].writers]
             ELSE content
        ELSE disk[q]]

\* A faulty cleanup that deletes the files of every folder
RemoveAllFolders(disk, folder, kept) == [q \in (DOMAIN disk) \cap kept |-> disk[q]]

\* shutil.rmtree(folder) keeping the files in kept (those it failed to delete)
RemoveTree(disk, folder, kept) ==
    [q \in {x \in DOMAIN disk : x.dir # folder \/ x \in kept} |-> disk[q]]

\* ------------------------------------------------------------ the time window
\* A time window: start and end in minutes of the analysis date, the increment
\* in minutes, and whether the day and time tokens resolve to calendar instants
TimeWindow(s, e, inc, ok) == [start |-> s, end |-> e, increment |-> inc, tokens_ok |-> ok]

\* The function fails with InvalidTimeWindow
InvalidTimeWindow == [raised |-> TRUE, times |-> <<>>]

CeilDivide(n, m) == (n + m - 1) \div m

\* AnalysisHelpers.make_analysis_time_of_day_list: the instants from the start
\* on, one per increment, that come before the end, and the end as the last one
make_analysis_time_of_day_list(w) ==
    IF ~w.tokens_ok \/ w.increment <= 0 \/ w.end < w.start THEN InvalidTimeWindow
    ELSE LET k == CeilDivide(w.end - w.start, w.increment)
         IN [raised |-> FALSE,
             times |-> [i \in 1..(k + 1) |->
                          IF i <= k THEN w.start + w.increment * (i - 1) ELSE w.end]]

\* A faulty conversion that drops the last start time of the window
StartTimesWithoutLast(w) ==
    [make_analysis_time_of_day_list(w) EXCEPT
        !.times = SubSeq(@, 1, Len(@) - 1)]

\* The try block of lines 641-650: the list for self.start_times, or the
\* exception that the except clause turns into ValueError
StartTimesOf(w) == make_analysis_time_of_day_list(w)

\* AnalysisHelpers.ODTool[tool] (line 627): the names of the enum
ODToolNames == {AccessibilityTool, TravelTimeTool}

\* A faulty lookup that takes any name for a tool
ToolLookupAny(tl) == tl

\* AnalysisHelpers.ODTool[tool]: the member, or KeyError
ToolLookup(tl) == IF tl \in ODToolNames THEN tl ELSE "KeyError"

\* The window of n start times that Spec runs with
SampleWindow(n) ==
    TimeWindow(FirstStartMinute, FirstStartMinute + TimeIncrement * (n - 1),
               TimeIncrement, TRUE)
\* ------------------------------------------------------- the solve messages
\* A message is the sequence of its parts; common_msg_prefix is line 408
CommonMsgPrefix == "No \"Destinations\" found for "

\* What the engine may report: the common message for a location, a message
\* that only holds the prefix further on, and another warning
EngineMessages ==
    { <<CommonMsgPrefix, "\"Location 1\" in \"Origins\".">>,
      <<CommonMsgPrefix, "\"Location 2\" in \"Origins\".">>,
      <<"Note: ", CommonMsgPrefix, "\"Location 1\".">>,
      <<"Network elements were not traversable.">> }

\* f"No destinations were found for {num_msgs_removed} origins."
SummaryMessage(k) == <<"No destinations were found for ">> \o Digits(k) \o <<" origins.">>

\* A faulty consolidation that appends the summary whether or not a message
\* was removed
CollapseMessagesAlways(solve_msgs) ==
    LET kept == SelectSeq(solve_msgs, LAMBDA msg : ~StartsWith(msg, <<CommonMsgPrefix>>))
    IN Append(kept, SummaryMessage(Len(solve_msgs) - Len(kept)))

\* Lines 409-413: the list without the repetitive messages, and the summary
CollapseMessages(solve_msgs) ==
    LET kept == SelectSeq(solve_msgs, LAMBDA msg : ~StartsWith(msg, <<CommonMsgPrefix>>))
        num_msgs_removed == Len(solve_msgs) - Len(kept)
    IN IF num_msgs_removed # 0 THEN Append(kept, SummaryMessage(num_msgs_removed))
       ELSE kept

\* "\n".join(solve_msgs) (line 414)
RECURSIVE JoinLines(_)
JoinLines(msgs) ==
    IF msgs = <<>> THEN <<>>
    ELSE IF Len(msgs) = 1 THEN Head(msgs)
    ELSE Head(msgs) \o <<"\n">> \o JoinLines(Tail(msgs))

\* No solve has reported yet
NoMessages == [state |-> "none", solverMessages |-> <<>>, solve_msgs |-> <<>>,
               solveMessages |-> <<>>]

RECURSIVE SeqsUpTo(_, _)
SeqsUpTo(S, n) ==
    IF n = 0 THEN {<<>>}
    ELSE SeqsUpTo(S, n - 1)
            \cup {Append(s, x) : s \in {t \in SeqsUpTo(S, n - 1) : Len(t) = n - 1}, x \in S}
\* -------------------------------------------------------------------- Init
\* The i-th ObjectID of a sample dataset: base, 10, 20, ...
OidAt(base, i) == IF i = 1 THEN base ELSE 10 * (i - 1)
SampleOids(base, k) == {OidAt(base, i) : i \in 1..k}

TimeTravelMode == [impedance |-> "TravelTime", timeAttributeName |-> "TravelTime"]
LengthTravelMode == [impedance |-> "Miles", timeAttributeName |-> "TravelTime"]

\* The state before ParallelODCalculator.__init__ has run
InitRun ==
    /\ start_times = <<>>
    /\ folders = {}
    /\ error = ""
    /\ dest_where = ""
    /\ origin_ranges = <<>>
    /\ destination_ranges = <<>>
    /\ chunks = <<>>
    /\ total_jobs = 0
    /\ od_line_files = <<>>
    /\ engine = <<>>
    /\ jobs = <<>>
    /\ collected = <<>>
    /\ uuid_count = 0
    /\ fs = << >>
    /\ log = {}
    /\ output = [kind |-> "none"]
    /\ completed_jobs = 0
    /\ pc = "construct"

\* The number of chunks the inputs lead to
JobsOf(origs, dests, wf, mo, md, sts) ==
    TotalJobs(get_oid_ranges_for_input(OriginFc(origs), mo, ""),
              get_oid_ranges_for_input(dests, md, DestWhere(wf)), sts)

\* The weight field of the sample destinations: the first one has weight 0
SampleWeights(k) == [d \in SampleOids(1, k) |-> IF d = 1 THEN 0 ELSE 2]

\* The datasets and chunk sizes of Spec: numbers of origins and destinations,
\* max_origins, max_destinations, and whether a weight field is given
Shape(ko, mo, kd, md, wf) ==
    [n_origins |-> ko, max_origins |-> mo, n_destinations |-> kd,
     max_destinations |-> md, weight_field |-> wf]
Shapes ==
    { Shape(0, 1, 1, 1, FALSE),    \* no origin
      Shape(1, 1, 0, 1, FALSE),    \* no destination
      Shape(1, 1, 1, 1, TRUE),     \* the only destination has weight 0
      Shape(1, 1, 1, 1, FALSE),    \* one origin and one destination
      Shape(2, 1, 1, 1, FALSE),    \* two origin ranges
      Shape(1, 1, 2, 1, FALSE),    \* two destination ranges
      Shape(1, 1, 2, 1, TRUE),     \* two destinations, the first of weight 0
      Shape(2, 2, 2, 2, FALSE),    \* one chunk of two origins and two destinations
      Shape(3, 2, 1, 1, FALSE),    \* origin ranges of two origins and of one
      Shape(3, 1, 1, 1, FALSE),    \* three origin ranges
      Shape(2, 1, 2, 1, FALSE) }   \* two origin ranges and two destination ranges

Init ==
    /\ tool \in {AccessibilityTool, TravelTimeTool}
    /\ \E sh \in Shapes :
          /\ origins = SampleOids(1, sh.n_origins)
          /\ destinations = SampleWeights(sh.n_destinations)
          /\ weight_field = sh.weight_field
          /\ max_origins = sh.max_origins
          /\ max_destinations = sh.max_destinations
    /\ max_processes \in 1..MaxProcesses
    /\ \E n \in 1..MaxTimes : time_window = SampleWindow(n)
    /\ travel_mode \in {TimeTravelMode, LengthTravelMode}
    /\ out_na_folder \in BOOLEAN
    /\ JobsOf(origins, destinations, weight_field, max_origins, max_destinations,
              StartTimesOf(time_window).times) <= MaxJobs
    /\ InitRun
    /\ messages = NoMessages

\* SpecPartition: one dataset with arbitrary ObjectIDs and weights serves as
\* origins and as destinations, and is split with arbitrary chunk sizes
InitPartition ==
    /\ tool = AccessibilityTool
    /\ \E S \in SUBSET (0..MaxOid) :
          /\ origins = S
          /\ destinations \in [S -> {NullWeight, 0, 1}]
    /\ weight_field \in BOOLEAN
    /\ max_origins \in 1..MaxChunkSize
    /\ max_destinations \in 1..MaxChunkSize
    /\ max_processes = 1
    /\ time_window = SampleWindow(1)
    /\ travel_mode = TimeTravelMode
    /\ out_na_folder = FALSE
    /\ InitRun
    /\ messages = NoMessages

\* ---------------------------------------------- ParallelODCalculator.__init__
\* The exception of __init__, "" when there is none: KeyError of the enum lookup
\* (line 627), ValueError of the time window (lines 646-650)
ConstructError(tl, w) ==
    IF ToolLookup(tl) = "KeyError" THEN "KeyError"
    ELSE IF StartTimesOf(w).raised THEN "ValueError"
    ELSE ""

\* The folders made by os.mkdir (lines 657-659)
MadeFolders(out_na) == IF out_na THEN {ScratchFolder, OutNaFolder} ELSE {ScratchFolder}

Construct ==
    /\ pc = "construct"
    /\ IF ConstructError(tool, time_window) # ""
       THEN /\ error' = ConstructError(tool, time_window)
            /\ log' = IF error' = "ValueError"
                      THEN log \cup {"ERROR: Error parsing input time window."}
                      ELSE log
            /\ pc' = "raised"
            /\ UNCHANGED <<initVars, engine, od_line_files>>
       ELSE /\ start_times' = StartTimesOf(time_window).times
            /\ folders' = MadeFolders(out_na_folder)
            /\ dest_where' = DestWhere(weight_field)
            /\ origin_ranges' = get_oid_ranges_for_input(OriginFc(origins), max_origins, "")
            /\ destination_ranges' =
                  get_oid_ranges_for_input(destinations, max_destinations, dest_where')
            /\ chunks' = Product(origin_ranges', destination_ranges', start_times')
            /\ total_jobs' = TotalJobs(origin_ranges', destination_ranges', start_times')
            /\ engine' = [k \in 1..total_jobs' |-> EngineUnknown]
            /\ od_line_files' = <<>>
            /\ pc' = "validate"
            /\ UNCHANGED <<log, error>>
    /\ UNCHANGED <<messages, inputVars, jobs, uuid_count, fs, completed_jobs, collected, output>>

\* ------------------------------------------------ the constructors alone
\* ODCostMatrix.__init__ (lines 198-203): the exception of the else branch, ""
\* when self.output_fields is set
SolverInitError(tl) ==
    IF tl = AccessibilityTool \/ tl = TravelTimeTool THEN ""
    ELSE "ValueError: Invalid OD Cost Matrix tool."

\* ODCostMatrix(**kwargs) called with the tool as it is given: the check of the
\* tool comes before the job id and the log file (lines 198-213)
ConstructSolver ==
    /\ pc = "construct"
    /\ IF SolverInitError(tool) # ""
       THEN /\ error' = SolverInitError(tool)
            /\ pc' = "raised"
            /\ UNCHANGED <<uuid_count, fs>>
       ELSE /\ uuid_count' = uuid_count + 1
            /\ fs' = WriteFile(fs, LogFile(uuid_count'), LogFileContent(uuid_count'))
            /\ pc' = "solver"
            /\ error' = error
    /\ UNCHANGED <<messages, inputVars, initVars, engine, jobs, od_line_files, completed_jobs,
                   collected, log, output>>

\* SpecConstruct: the constructors with tool names and time windows of every
\* kind, valid or not
InitConstruct ==
    /\ tool \in {AccessibilityTool, TravelTimeTool, "CalculateNothing"}
    /\ origins = {1, 2}
    /\ destinations = (1 :> 1 @@ 2 :> 0)
    /\ weight_field \in BOOLEAN
    /\ max_origins = 1
    /\ max_destinations = 1
    /\ max_processes = 1
    /\ \E d \in (-1)..MaxWindow, inc \in (-1)..MaxIncrement, ok \in BOOLEAN :
          time_window = TimeWindow(FirstStartMinute, FirstStartMinute + d, inc, ok)
    /\ travel_mode = TimeTravelMode
    /\ out_na_folder \in BOOLEAN
    /\ InitRun
    /\ messages = NoMessages

NextConstruct == Construct \/ ConstructSolver
SpecConstruct == InitConstruct /\ [][NextConstruct]_vars
\* ------------------------------------------------- the solve messages alone
\* SpecMessages: one solve has returned with any messages of the engine
InitMessages ==
    /\ tool = AccessibilityTool
    /\ origins = {1}
    /\ destinations = (1 :> 1)
    /\ weight_field = FALSE
    /\ max_origins = 1
    /\ max_destinations = 1
    /\ max_processes = 1
    /\ time_window = SampleWindow(1)
    /\ travel_mode = TimeTravelMode
    /\ out_na_folder = FALSE
    /\ InitRun
    /\ \E msgs \in SeqsUpTo(EngineMessages, MaxMessages) :
          messages = [state |-> "solved", solverMessages |-> msgs, solve_msgs |-> <<>>,
                      solveMessages |-> <<>>]

\* Handle solve messages (lines 401-417)
HandleSolveMessages ==
    /\ messages.state = "solved"
    /\ messages' = [state |-> "handled",
                    solverMessages |-> messages.solverMessages,
                    solve_msgs |-> CollapseMessages(messages.solverMessages),
                    solveMessages |-> JoinLines(CollapseMessages(messages.solverMessages))]
    /\ UNCHANGED <<inputVars, initVars, poolVars, mainVars>>

NextMessages == HandleSolveMessages
SpecMessages == InitMessages /\ [][NextMessages]_vars
\* ------------------------------------------------------- _validate_od_settings
\* The dummy ODCostMatrix takes a job id; its log file is removed in the finally
\* clause, so the disk is as before.
ValidateOdSettings ==
    /\ pc = "validate"
    /\ uuid_count' = uuid_count + 1
    /\ IF validate_travel_mode(travel_mode)
       THEN /\ pc' = "submit"
            /\ log' = log
            /\ error' = error
       ELSE /\ pc' = "raised"
            /\ log' = log \cup {"ERROR: Error initializing OD Cost Matrix analysis."}
            /\ error' = "ValueError: The impedance units of the travel mode are not time based."
    /\ UNCHANGED <<messages, inputVars, initVars, engine, jobs, fs, od_line_files, completed_jobs,
                   collected, output>>

\* --------------------------------------------------------- the worker pool
QueuedJob == [state |-> "queued", worker |-> 0, result |-> JobResultInit(0)]

PoolOpen == pc \in {"submit", "collect", "shutdown"}

Running(js) == {k \in DOMAIN js : js[k].state = "running"}
\* A faulty pool in which every worker process always counts as idle
IdleWorkersIgnoringRunning(js, n) == 1..n

IdleWorkers(js, n) == {w \in 1..n : \A k \in Running(js) : js[k].worker # w}

\* The worker process that takes the next work item. The processes of the pool
\* are interchangeable: the idle one of least number stands for any idle one.
FreeWorker(js, n) == IF IdleWorkers(js, n) = {} THEN {} ELSE {Min(IdleWorkers(js, n))}

\* A faulty pool that never hands a queued work item to a worker process
NextQueuedNever(js) == {}
\* The work item a free worker process takes: the oldest one still queued
NextQueued(js) == {k \in DOMAIN js : js[k].state = "queued"
                                       /\ \A j \in 1..(k - 1) : js[j].state # "queued"}

\* executor.submit(solve_od_cost_matrix, self.od_inputs, chunks) (lines 771-772)
Submit ==
    /\ pc = "submit"
    /\ Len(jobs) < total_jobs
    /\ jobs' = Append(jobs, QueuedJob)
    /\ UNCHANGED <<messages, inputVars, initVars, engine, uuid_count, fs, mainVars>>

\* All chunks are submitted: the scheduler enters the as_completed loop
SubmitDone ==
    /\ pc = "submit"
    /\ Len(jobs) = total_jobs
    /\ pc' = "collect"
    /\ UNCHANGED <<messages, inputVars, initVars, poolVars, od_line_files, completed_jobs,
                   collected, log, output, error>>

\* A worker process takes a chunk: solve_od_cost_matrix constructs the
\* ODCostMatrix, which takes a job id and opens its log file (lines 576, 206-213)
StartJob(k, w) ==
    /\ PoolOpen
    /\ k \in NextQueued(jobs)
    /\ w \in FreeWorker(jobs, max_processes)
    /\ uuid_count' = uuid_count + 1
    /\ jobs' = [jobs EXCEPT ![k] = [state |-> "running", worker |-> w,
                                    result |-> JobResultInit(uuid_count')]]
    /\ fs' = WriteFile(fs, LogFile(uuid_count'), LogFileContent(uuid_count'))
    /\ UNCHANGED <<messages, inputVars, initVars, engine, mainVars>>

\* ODCostMatrix.solve when the engine reports solveSucceeded = False (lines 420-422)
SolveFailed(k) ==
    /\ PoolOpen
    /\ k \in Running(jobs)
    /\ engine' = [engine EXCEPT ![k] = [result |-> "fail", lines |-> {}]]
    /\ jobs' = [jobs EXCEPT ![k].state = "finished", ![k].worker = 0]
    /\ UNCHANGED <<messages, inputVars, initVars, uuid_count, fs, mainVars>>

\* ODCostMatrix.solve when the solve succeeds: the Lines are saved to the result
\* file and job_result is completed (lines 423-441, 487-496)
SolveSucceeded(k) ==
    /\ PoolOpen
    /\ k \in Running(jobs)
    /\ \E lines \in EngineLineChoices(tool, start_times,
                                      SelectedOrigins(origins, chunks[k]),
                                      SelectedDestinations(destinations, dest_where,
                                                           chunks[k]),
                                      chunks[k][3]) :
          /\ engine' = [engine EXCEPT ![k] = [result |-> "ok", lines |-> lines]]
          /\ fs' = WriteFile(fs, OutputOdLines(out_na_folder, chunks[k]),
                             CsvFile(lines, jobs[k].result.jobId))
    /\ jobs' = [jobs EXCEPT ![k].state = "finished", ![k].worker = 0,
                            ![k].result.solveSucceeded = TRUE,
                            ![k].result.outputLines =
                                OutputOdLines(out_na_folder, chunks[k])]
    /\ UNCHANGED <<messages, inputVars, initVars, uuid_count, mainVars>>

\* A faulty worker that swallows the error of the export and returns job_result
\* as it stands, solveSucceeded already set (line 426)
ExportFailureReturned(job_result) == [job_result EXCEPT !.solveSucceeded = TRUE]

\* What the future holds when _export_to_csv raises: solve and
\* solve_od_cost_matrix catch nothing (lines 437-441, 581-583), so job_result is
\* never returned
ExportFailure(job_result) == WorkerException(job_result.jobId)

\* ODCostMatrix.solve when the solve succeeds and the export of the Lines raises
\* with the result file opened (lines 423-441, 487-494)
ExportRaises(k) ==
    /\ PoolOpen
    /\ k \in Running(jobs)
    /\ engine' = [engine EXCEPT ![k] = [result |-> "raise", lines |-> {}]]
    /\ fs' = WriteFile(fs, OutputOdLines(out_na_folder, chunks[k]),
                       PartialCsvFile(jobs[k].result.jobId))
    /\ jobs' = [jobs EXCEPT ![k].state = "finished", ![k].worker = 0,
                            ![k].result = ExportFailure(jobs[k].result)]
    /\ UNCHANGED <<messages, inputVars, initVars, uuid_count, mainVars>>

\* solve_od_cost_matrix raises before it writes a result file (an arcpy error, a
\* crashed process): the future holds the exception
WorkerRaises(k) ==
    /\ PoolOpen
    /\ k \in Running(jobs)
    /\ engine' = [engine EXCEPT ![k] = [result |-> "raise", lines |-> {}]]
    /\ jobs' = [jobs EXCEPT ![k].state = "finished", ![k].worker = 0,
                            ![k].result = WorkerException(jobs[k].result.jobId)]
    /\ UNCHANGED <<messages, inputVars, initVars, uuid_count, fs, mainVars>>

\* ------------------------------------------------------ the as_completed loop
Uncollected == {k \in DOMAIN jobs : jobs[k].state = "finished" /\ k \notin Range(collected)}

\* A faulty bucketing that records the path of every result, failed or not
StoreResultAlways(files, result) == Append(files, result.outputLines)

\* A faulty bucketing that keeps the path of the latest success only
StoreResultLatestOnly(files, result) ==
    IF result.solveSucceeded THEN <<result.outputLines>> ELSE files

\* if result["solveSucceeded"]: self.od_line_files.append(result["outputLines"])
StoreResult(files, result) ==
    IF result.solveSucceeded THEN Append(files, result.outputLines) ELSE files

\* A faulty loop that swallows the exception of future.result()
AfterResultSwallow(result) == "collect"

\* A faulty loop that leaves the batch for the post-processing when a worker raised
AfterResultAggregate(result) == IF result.raised THEN "postprocess" ELSE "collect"
\* A faulty loop that stops the batch on a failed solve as well
AfterResultFailFatal(result) ==
    IF result.raised \/ ~result.solveSucceeded THEN "shutdown" ELSE "collect"

\* Where the scheduler goes after future.result(): the except clause re-raises
\* (lines 778-787), otherwise the loop goes on
AfterResult(result) == IF result.raised THEN "shutdown" ELSE "collect"

\* One iteration of the loop over futures.as_completed(jobs) (lines 774-799)
Collect(k) ==
    /\ pc = "collect"
    /\ k \in Uncollected
    /\ completed_jobs' = completed_jobs + 1
    /\ collected' = Append(collected, k)
    /\ pc' = AfterResult(jobs[k].result)
    /\ IF pc' = "shutdown"
       THEN /\ log' = log \cup
                 {"ERROR: Failed to get OD Cost Matrix result from parallel processing."}
            /\ od_line_files' = od_line_files
       ELSE /\ log' = IF jobs[k].result.solveSucceeded THEN log
                      ELSE log \cup {"DEBUG: Solve failed for job id."}
            /\ od_line_files' = StoreResult(od_line_files, jobs[k].result)
    /\ UNCHANGED <<messages, inputVars, initVars, poolVars, output, error>>

\* The loop ends when every future has been yielded; the with block is left
CollectDone ==
    /\ pc = "collect"
    /\ Len(collected) = total_jobs
    /\ pc' = "postprocess"
    /\ UNCHANGED <<messages, inputVars, initVars, poolVars, od_line_files, completed_jobs,
                   collected, log, output, error>>

\* A faulty exit of the with block that does not wait for the work items
ExecutorExitNoWait(js) == TRUE

\* When the with block of line 768 can be left: ProcessPoolExecutor.__exit__ is
\* shutdown(wait=True), which returns once every submitted work item has run
ExecutorExit(js) == \A k \in DOMAIN js : js[k].state = "finished"
\* The exception leaves the with block: ProcessPoolExecutor.__exit__ waits for
\* the pending work items, then the exception reaches the caller
ShutdownAfterRaise ==
    /\ pc = "shutdown"
    /\ ExecutorExit(jobs)
    /\ pc' = "raised"
    /\ error' = "WorkerError"
    /\ UNCHANGED <<messages, inputVars, initVars, poolVars, od_line_files, completed_jobs,
                   collected, log, output>>

\* ------------------------------------------------------------ post-processing
\* self.od_line_files = sorted(self.od_line_files) (line 803)
SortFiles(files) == Sorted(files)

\* A faulty test that aggregates whether or not there is a result file
HasResultsAlways(files) == TRUE

\* if self.od_line_files: (line 802)
HasResults(files) == files # <<>>

\* A faulty dispatch that calls the accessibility aggregator for either tool
AggregatorAlwaysAccessibility(tl) == "accessibility"

\* The aggregator the tool selects (lines 804-809)
Aggregator(tl) == IF tl = AccessibilityTool THEN "accessibility" ELSE "travel_time"
\* Lines 802-813
PostProcess ==
    /\ pc = "postprocess"
    /\ IF HasResults(od_line_files)
       THEN /\ od_line_files' = SortFiles(od_line_files)
            /\ output' =
                 IF Aggregator(tool) = "accessibility"
                 THEN [kind |-> "accessibility",
                       fields |-> calculate_accessibility_matrix_outputs(
                                     fs, od_line_files', origins, destinations,
                                     weight_field,
                                     SampleCount(start_times, od_line_files'))]
                 ELSE [kind |-> "travel_time",
                       rows |-> calculate_travel_time_statistics_outputs(
                                     fs, od_line_files', origin_ranges)]
            /\ log' = log
       ELSE /\ od_line_files' = od_line_files
            /\ output' = output
            /\ log' = log \cup
                 {"WARNING: All OD Cost Matrix solves failed, so no output was produced."}
    /\ pc' = "cleanup"
    /\ UNCHANGED <<messages, inputVars, initVars, poolVars, completed_jobs, collected, error>>

ScratchFiles(disk) == {q \in DOMAIN disk : q.dir = ScratchFolder}

\* What shutil.rmtree(..., ignore_errors=True) may leave behind: nothing,
\* everything, or the log files only
RmtreeLeftovers(disk) ==
    {{}, ScratchFiles(disk), {q \in ScratchFiles(disk) : disk[q].kind = "log"}}

\* A faulty cleanup in which a failed deletion ends the run with an error
AfterRmtreeStrict(kept) == IF kept # {} THEN "raised" ELSE "done"

\* Where the run goes after shutil.rmtree(..., ignore_errors=True) left the files
\* in kept behind: errors are ignored, the run goes on to its last log line
AfterRmtree(kept) == "done"

\* Lines 817-825
Cleanup ==
    /\ pc = "cleanup"
    /\ \E kept \in RmtreeLeftovers(fs) :
          /\ fs' = RemoveTree(fs, ScratchFolder, kept)
          /\ folders' = IF kept = {} THEN folders \ {ScratchFolder} ELSE folders
          /\ pc' = AfterRmtree(kept)
    /\ log' = IF pc' = "done"
              THEN log \cup {"INFO: Finished calculating OD Cost Matrices."}
              ELSE log
    /\ UNCHANGED <<messages, inputVars, start_times, dest_where, origin_ranges, destination_ranges,
                   chunks, total_jobs, engine, jobs, uuid_count, od_line_files,
                   completed_jobs, collected, output, error>>

\* ------------------------------------------------- the aggregators alone
\* SpecAggregate starts where the as_completed loop ends: every chunk of the
\* inputs has been solved and collected, with any outcome of the engine; its
\* one step is the post-processing. The datasets carry NULL, zero, positive and
\* negative weights.
AggShape(tl, origs, mo, dests, md, wf) ==
    [tool |-> tl, origins |-> origs, max_origins |-> mo, destinations |-> dests,
     max_destinations |-> md, weight_field |-> wf]
AggShapes ==
    { \* two destination ranges, uniform weights
      AggShape(AccessibilityTool, {1}, 1, (1 :> 1 @@ 2 :> 1), 1, FALSE),
      \* one chunk of two destinations, uniform weights
      AggShape(AccessibilityTool, {1}, 1, (1 :> 1 @@ 2 :> 1), 2, FALSE),
      \* one origin range of two origins
      AggShape(AccessibilityTool, {1, 12}, 2, (5 :> 1), 1, FALSE),
      \* a destination of weight 0 between two weighted ones
      AggShape(AccessibilityTool, {1}, 1, (1 :> 2 @@ 2 :> 0 @@ 3 :> 3), 2, TRUE),
      \* weights that sum to 0
      AggShape(AccessibilityTool, {1}, 1, (1 :> 2 @@ 2 :> -2), 1, TRUE),
      \* a negative weight
      AggShape(AccessibilityTool, {1}, 1, (1 :> 3 @@ 2 :> -2), 2, TRUE),
      \* two origin ranges, a destination of NULL weight
      AggShape(AccessibilityTool, {1, 2}, 1, (1 :> NullWeight @@ 2 :> 2), 1, TRUE),
      \* travel times: one chunk of two destinations, two origin ranges, one
      \* origin range of two origins
      AggShape(TravelTimeTool, {1}, 1, (1 :> 1 @@ 2 :> 1), 2, FALSE),
      AggShape(TravelTimeTool, {1, 2}, 1, (5 :> 1), 1, FALSE),
      AggShape(TravelTimeTool, {1, 12}, 2, (5 :> 1), 1, FALSE),
      \* two origin ranges, the bounds of the first a textual prefix of the
      \* bounds of the second
      AggShape(TravelTimeTool, {1, 10}, 1, (5 :> 1), 1, FALSE) }

\* What the engine may do with a chunk that does not raise: the solve fails, or
\* it succeeds and its Lines hold any of the pairs of the chunk's layers
SolveOutcomes(tl, sts, origs, dests, where, chunk) ==
    {[result |-> "fail", lines |-> {}]}
        \cup {[result |-> "ok", lines |-> L] :
                 L \in SUBSET {LineRow(tl, sts, o, d, chunk[3]) :
                                  o \in SelectedOrigins(origs, chunk),
                                  d \in SelectedDestinations(dests, where, chunk)}}

RECURSIVE OutcomeSeqs(_, _, _, _, _, _)
OutcomeSeqs(tl, sts, origs, dests, where, cs) ==
    IF cs = <<>> THEN {<<>>}
    ELSE {<<h>> \o t : h \in SolveOutcomes(tl, sts, origs, dests, where, Head(cs)),
                        t \in OutcomeSeqs(tl, sts, origs, dests, where, Tail(cs))}

\* The job of chunk k once solve_od_cost_matrix has returned; job ids follow
\* the one of the validation
FinishedJob(out_na, chunk, job_id, outcome) ==
    [state |-> "finished", worker |-> 0,
     result |-> IF outcome.result = "ok"
                THEN [JobResultInit(job_id) EXCEPT
                         !.solveSucceeded = TRUE,
                         !.outputLines = OutputOdLines(out_na, chunk)]
                ELSE JobResultInit(job_id)]

\* The disk after the jobs 1..k: a log file each, a result file per success
RECURSIVE DiskAfter(_, _, _, _)
DiskAfter(out_na, cs, eng, k) ==
    IF k = 0 THEN << >>
    ELSE LET logged == WriteFile(DiskAfter(out_na, cs, eng, k - 1),
                                 LogFile(k + 1), LogFileContent(k + 1))
         IN IF eng[k].result = "ok"
            THEN WriteFile(logged, OutputOdLines(out_na, cs[k]),
                           CsvFile(eng[k].lines, k + 1))
            ELSE logged

\* od_line_files after the results of the jobs 1..k were stored in that order
RECURSIVE FilesAfter(_, _)
FilesAfter(js, k) ==
    IF k = 0 THEN <<>> ELSE StoreResult(FilesAfter(js, k - 1), js[k].result)

InitAggregate ==
    /\ \E sh \in AggShapes :
          /\ tool = sh.tool
          /\ origins = sh.origins
          /\ destinations = sh.destinations
          /\ weight_field = sh.weight_field
          /\ max_origins = sh.max_origins
          /\ max_destinations = sh.max_destinations
    /\ max_processes = 1
    /\ \E n \in 1..MaxSamples :
          /\ time_window = SampleWindow(n)
          /\ start_times = StartTimesOf(time_window).times
    /\ travel_mode = TimeTravelMode
    /\ out_na_folder = FALSE
    /\ folders = MadeFolders(out_na_folder)
    /\ error = ""
    /\ messages = NoMessages
    /\ dest_where = DestWhere(weight_field)
    /\ origin_ranges = get_oid_ranges_for_input(OriginFc(origins), max_origins, "")
    /\ destination_ranges =
          get_oid_ranges_for_input(destinations, max_destinations, dest_where)
    /\ chunks = Product(origin_ranges, destination_ranges, start_times)
    /\ total_jobs = TotalJobs(origin_ranges, destination_ranges, start_times)
    /\ engine \in OutcomeSeqs(tool, start_times, origins, destinations, dest_where, chunks)
    /\ jobs = [k \in 1..total_jobs |->
                 FinishedJob(out_na_folder, chunks[k], k + 1, engine[k])]
    /\ uuid_count = total_jobs + 1
    /\ fs = DiskAfter(out_na_folder, chunks, engine, total_jobs)
    /\ od_line_files = FilesAfter(jobs, total_jobs)
    /\ collected = [k \in 1..total_jobs |-> k]
    /\ completed_jobs = total_jobs
    /\ log = IF \E k \in 1..total_jobs : engine[k].result = "fail"
             THEN {"DEBUG: Solve failed for job id."} ELSE {}
    /\ output = [kind |-> "none"]
    /\ pc = "postprocess"

Next ==
    \/ Construct
    \/ ValidateOdSettings
    \/ Submit
    \/ SubmitDone
    \/ \E k \in DOMAIN jobs, w \in 1..max_processes : StartJob(k, w)
    \/ \E k \in DOMAIN jobs : SolveFailed(k)
    \/ \E k \in DOMAIN jobs : SolveSucceeded(k)
    \/ \E k \in DOMAIN jobs : WorkerRaises(k)
    \/ \E k \in DOMAIN jobs : Collect(k)
    \/ CollectDone
    \/ ShutdownAfterRaise
    \/ PostProcess
    \/ Cleanup

Spec == Init /\ [][Next]_vars

\* The steps of the main process and those of the worker processes
SchedulerNext ==
    \/ Construct
    \/ ValidateOdSettings
    \/ Submit
    \/ SubmitDone
    \/ \E k \in DOMAIN jobs : Collect(k)
    \/ CollectDone
    \/ ShutdownAfterRaise
    \/ PostProcess
    \/ Cleanup
WorkerNext ==
    \/ \E k \in DOMAIN jobs, w \in 1..max_processes : StartJob(k, w)
    \/ \E k \in DOMAIN jobs : SolveFailed(k)
    \/ \E k \in DOMAIN jobs : SolveSucceeded(k)
    \/ \E k \in DOMAIN jobs : WorkerRaises(k)

\* The run under fair scheduling: the main process goes on when it can, an idle
\* worker process takes the next work item, and every engine call returns or raises
\* The inputs are those of Spec with at most one origin and one destination,
\* without weight field and without output folder: one chunk per start time,
\* the scheduling is what matters here
InitFair ==
    /\ Init
    /\ ~out_na_folder
    /\ ~weight_field
    /\ Cardinality(origins) <= 1
    /\ Cardinality(DOMAIN destinations) = 1
SpecFair == InitFair /\ [][Next]_vars /\ WF_vars(SchedulerNext) /\ WF_vars(WorkerNext)
\* The aggregators alone, over arbitrary outcomes of the chunks
\* The run with the two ways a worker can raise told apart: before the export of
\* the result file, or in it. The inputs are those of Spec with one destination,
\* without weight field and without output folder (the result files are in the
\* scratch folder): one chunk per origin range and start time
InitWorker ==
    /\ Init
    /\ ~weight_field
    /\ ~out_na_folder
    /\ Cardinality(DOMAIN destinations) = 1

NextWorker ==
    \/ Next
    \/ \E k \in DOMAIN jobs : ExportRaises(k)

SpecWorker == InitWorker /\ [][NextWorker]_vars
NextAggregate == PostProcess
SpecAggregate == InitAggregate /\ [][NextAggregate]_vars

\* The post-processing of the accessibility tool alone, over the outcomes of a
\* window of at most MaxTimes start times
InitThreshold ==
    /\ InitAggregate
    /\ tool = AccessibilityTool
    /\ Len(start_times) <= MaxTimes

SpecThreshold == InitThreshold /\ [][NextAggregate]_vars

\* The range partitioner alone, over arbitrary datasets
SpecPartition == InitPartition /\ [][Construct]_vars

\* ======================================================================
\* Properties
\* ======================================================================
Constructed == pc # "construct"

\* The identifiers the cursor returns for the origins and for the destinations
SurvivingOrigins == Range(SearchCursor(OriginFc(origins), ""))
SurvivingDestinations == Range(SearchCursor(destinations, DestWhere(weight_field)))

InRange(id, r) == r[1] <= id /\ id <= r[2]
CountIn(ids, r) == Cardinality({id \in ids : InRange(id, r)})

\* low <= high, ascending and pairwise disjoint, every identifier in exactly one range
RangesPartition(ranges, ids) ==
    /\ \A i \in DOMAIN ranges : ranges[i][1] <= ranges[i][2]
    /\ \A i, j \in DOMAIN ranges : i < j => ranges[i][2] < ranges[j][1]
    /\ \A id \in ids : Cardinality({i \in DOMAIN ranges : InRange(id, ranges[i])}) = 1
    /\ SumOver(DOMAIN ranges, [i \in DOMAIN ranges |-> CountIn(ids, ranges[i])])
          = Cardinality(ids)

\* C1: the ranges _get_oid_ranges_for_input returns satisfy low <= high, are
\* pairwise disjoint and ascending, and every surviving identifier (any
\* non-negative integers) lies in exactly one range.
C1_RangesPartitionIds ==
    Constructed =>
        /\ RangesPartition(origin_ranges, SurvivingOrigins)
        /\ RangesPartition(destination_ranges, SurvivingDestinations)

\* The same statement restricted to datasets without the ObjectID 0: it holds
C1_RangesPartitionPositiveIds ==
    (Constructed /\ 0 \notin origins) =>
        /\ RangesPartition(origin_ranges, SurvivingOrigins)
        /\ RangesPartition(destination_ranges, SurvivingDestinations)

CeilDiv(n, m) == (n + m - 1) \div m

\* ceil(n/m) ranges, each of at most m identifiers, all but the last of exactly m
MinimalRanges(ranges, ids, m) ==
    /\ Len(ranges) = CeilDiv(Cardinality(ids), m)
    /\ \A i \in DOMAIN ranges : CountIn(ids, ranges[i]) <= m
    /\ \A i \in DOMAIN ranges : i < Len(ranges) => CountIn(ids, ranges[i]) = m

\* C2: for n surviving identifiers and max_chunk_size m, the number of ranges is
\* ceil(n/m), every range holds at most m surviving identifiers and every range
\* but the last holds exactly m, gaps in the identifiers notwithstanding.
C2_MinimalRangeCount ==
    Constructed =>
        /\ MinimalRanges(origin_ranges, SurvivingOrigins, max_origins)
        /\ MinimalRanges(destination_ranges, SurvivingDestinations, max_destinations)

\* The same statement restricted to datasets without the ObjectID 0: it holds
C2_MinimalRangeCountPositiveIds ==
    (Constructed /\ 0 \notin origins) =>
        /\ MinimalRanges(origin_ranges, SurvivingOrigins, max_origins)
        /\ MinimalRanges(destination_ranges, SurvivingDestinations, max_destinations)

\* ---------------------------------------------------------------- C3 .. C10
Submitted == DOMAIN jobs
Finished == {k \in Submitted : jobs[k].state = "finished"}
Collected == Range(collected)
RaisedJobs == {k \in Finished : jobs[k].result.raised}
SucceededJobs == {k \in Finished : jobs[k].result.solveSucceeded}
FailedJobs == {k \in Finished : ~jobs[k].result.raised /\ ~jobs[k].result.solveSucceeded}

\* The chunks whose engine solve succeeded, failed or raised
EngineOk == {k \in DOMAIN engine : engine[k].result = "ok"}
EngineFail == {k \in DOMAIN engine : engine[k].result = "fail"}
EngineRaise == {k \in DOMAIN engine : engine[k].result = "raise"}

\* The travel mode's impedance is its time attribute
TimeBased == travel_mode.impedance = travel_mode.timeAttributeName

ResultPath(k) == OutputOdLines(out_na_folder, chunks[k])
CsvFilesOnDisk == {q \in DOMAIN fs : fs[q].kind = "csv"}
LogFilesOnDisk == {q \in DOMAIN fs : fs[q].kind = "log"}

\* An aggregator has run once the post-processing step is over
PostProcessed == pc \in {"cleanup", "done"}

\* In how many successful solves the engine reported the pair (o, d)
ReachCount(o, d) ==
    Cardinality({k \in EngineOk : \E r \in engine[k].lines : r[1] = o /\ r[2] = d})

\* The travel times the successful solves reported for the pair (o, d)
ReportedTimes(o, d) ==
    UNION {{<<k, r[3]>> : r \in {x \in engine[k].lines : x[1] = o /\ x[2] = d}} :
              k \in EngineOk}

ReachedPairs == {<<r[1], r[2]>> : r \in UNION {engine[k].lines : k \in EngineOk}}

\* C3: od_line_files holds only result files returned by chunks whose outcome
\* has solveSucceeded = true; a chunk whose solve failed writes no result file,
\* is never in od_line_files, and no aggregate row stems from it: every origin's
\* TotalDests and every travel-time row is backed by lines of successful solves.
C3_FailedChunksLeaveNoTrace ==
    /\ \A i \in DOMAIN od_line_files :
          \E k \in SucceededJobs \cap EngineOk : od_line_files[i] = ResultPath(k)
    /\ \A k \in EngineFail :
          /\ ~jobs[k].result.solveSucceeded
          /\ jobs[k].result.outputLines = NoPath
          /\ ResultPath(k) \notin Range(od_line_files)
          /\ \A q \in DOMAIN fs : jobs[k].result.jobId \in fs[q].writers => fs[q].kind = "log"
    /\ (PostProcessed /\ output.kind = "accessibility") =>
          \A o \in origins :
             output.fields[o].TotalDests =
                LET ds == {d \in DOMAIN destinations : ReachCount(o, d) > 0}
                IN SumOver(ds, [d \in ds |-> WeightOf(destinations, weight_field, d)])
    /\ (PostProcessed /\ output.kind = "travel_time") =>
          \A i \in DOMAIN output.rows :
             output.rows[i].count =
                ReachCount(output.rows[i].OriginOID, output.rows[i].DestinationOID)

\* A run that ended with an aggregate although the solve of some chunk failed
C3_Witness ==
    /\ pc = "done"
    /\ output.kind # "none"
    /\ EngineFail \cap Collected # {}
    /\ EngineOk # {}

\* The aggregate the engine's behaviour determines, whatever the order of completion
ExpectedAccessibility ==
    [o \in origins |->
        IF \E d \in DOMAIN destinations : ReachCount(o, d) > 0
        THEN LET reached(perc) ==
                     {d \in DOMAIN destinations :
                         ReachCount(o, d) > 0
                         /\ ReachCount(o, d) * 100 >= Len(start_times) * perc}
                 weight(ds) ==
                     SumOver(ds, [d \in ds |-> WeightOf(destinations, weight_field, d)])
                 tot == TotalDestsOf(destinations, weight_field)
             IN [TotalDests |-> weight(reached(0)),
                 PercDests |-> Divide(100 * weight(reached(0)), tot),
                 DsAL |-> [perc \in Percents |-> weight(reached(perc))],
                 PsAL |-> [perc \in Percents |-> Divide(100 * weight(reached(perc)), tot)]]
        ELSE ZeroRecord]

ExpectedTravelTime ==
    LET keys == SortedPairs(ReachedPairs)
    IN [i \in DOMAIN keys |->
          LET ts == ReportedTimes(keys[i][1], keys[i][2])
          IN [OriginOID |-> keys[i][1], DestinationOID |-> keys[i][2],
              count |-> Cardinality(ts),
              min |-> Min({e[2] : e \in ts}), max |-> Max({e[2] : e \in ts}),
              mean |-> Ratio(SumOver(ts, [e \in ts |-> e[2]]), Cardinality(ts))]]

ExpectedOutput ==
    IF EngineOk = {} THEN [kind |-> "none"]
    ELSE IF tool = AccessibilityTool
         THEN [kind |-> "accessibility", fields |-> ExpectedAccessibility]
         ELSE [kind |-> "travel_time", rows |-> ExpectedTravelTime]

\* C4: the aggregated output is a function of the chunk universe and of the
\* engine's behaviour per chunk alone: it is the same for every order in which
\* the workers complete the chunks and for every max_processes.
C4_OutputIndependentOfCompletionOrder ==
    PostProcessed => output = ExpectedOutput

IsAscending(s) == \A i, j \in DOMAIN s : i < j => s[i] < s[j]

\* A finished run whose chunks completed out of submission order, two of them
\* successfully
C4_Witness ==
    /\ pc = "done"
    /\ max_processes > 1
    /\ ~IsAscending(collected)
    /\ Cardinality(EngineOk) >= 2
    /\ output.kind # "none"

\* C5: once a raised worker is retrieved, the error is logged and the run is on
\* its way to the caller with the exception and never reports normal completion,
\* whatever the other chunks did.
C5_WorkerRaiseIsFatal ==
    /\ (RaisedJobs \cap Collected # {}) =>
          /\ pc \in {"shutdown", "raised"}
          /\ "ERROR: Failed to get OD Cost Matrix result from parallel processing." \in log
          /\ "INFO: Finished calculating OD Cost Matrices." \notin log
          /\ output.kind = "none"
    /\ (pc \in {"postprocess", "cleanup", "done"}) => RaisedJobs = {}

\* The exception reached the caller although another chunk had succeeded
C5_Witness ==
    /\ pc = "raised"
    /\ RaisedJobs \cap Collected # {}
    /\ SucceededJobs # {}

\* C6: a failed solve still yields a job result, does not stop the batch (only a
\* raised worker does), every chunk is collected, and aggregation runs over the
\* result files of the chunks that succeeded.
C6_SolveFailureIsRoutine ==
    /\ \A k \in EngineFail :
          /\ jobs[k].state = "finished"
          /\ ~jobs[k].result.raised
          /\ ~jobs[k].result.solveSucceeded
    /\ (pc = "shutdown") => RaisedJobs \cap Collected # {}
    /\ (pc = "raised") => (RaisedJobs \cap Collected # {} \/ ~TimeBased)
    /\ (RaisedJobs = {} /\ PostProcessed) =>
          /\ Collected = 1..total_jobs
          /\ Range(od_line_files) = {ResultPath(k) : k \in SucceededJobs}
          /\ (SucceededJobs # {}) => output.kind # "none"

\* A failed chunk was collected before a successful one, and the run aggregated
C6_Witness ==
    /\ pc = "done"
    /\ output.kind # "none"
    /\ \E i, j \in DOMAIN collected :
          i < j /\ collected[i] \in EngineFail /\ collected[j] \in EngineOk

\* C7: at most max_processes chunks are being executed, and a worker process
\* executes one chunk at a time.
C7_BoundedParallelism ==
    /\ Cardinality(Running(jobs)) <= max_processes
    /\ \A k \in Running(jobs) : jobs[k].worker \in 1..max_processes
    /\ \A k1, k2 \in Running(jobs) : k1 # k2 => jobs[k1].worker # jobs[k2].worker
    /\ \A k \in Submitted \ Running(jobs) : jobs[k].worker = 0

\* Every worker is busy and a chunk waits in the queue
C7_Witness ==
    /\ max_processes > 1
    /\ Cardinality(Running(jobs)) = max_processes
    /\ \E k \in Submitted : jobs[k].state = "queued"

\* C8: distinct chunks have distinct result-file names (chunks is fixed by the
\* constructor, so this is stated of the state it leaves), the log files of the
\* jobs are distinct, and no path is written by two jobs.
C8_WriteDisjointPaths ==
    /\ (pc = "validate") =>
          \A k1, k2 \in DOMAIN chunks :
             k1 # k2 => OutFilename(chunks[k1]) # OutFilename(chunks[k2])
    /\ \A k1, k2 \in {k \in Submitted : jobs[k].state # "queued"} :
          k1 # k2 => jobs[k1].result.logFile # jobs[k2].result.logFile
    /\ \A q \in DOMAIN fs : Cardinality(fs[q].writers) <= 1

\* Two jobs are running while a third has written its result file
C8_Witness ==
    /\ Cardinality(Running(jobs)) = 2
    /\ CsvFilesOnDisk # {}
    /\ Cardinality(LogFilesOnDisk) >= 3

\* C9: the settings are validated before any chunk is submitted; when the
\* validation fails the error is raised, no chunk is ever submitted, no result
\* file is written and no aggregator runs.
C9_ValidationBeforeDispatch ==
    /\ (Submitted # {}) => (TimeBased /\ pc \notin {"construct", "validate"})
    /\ ~TimeBased =>
          /\ pc \in {"construct", "validate", "raised"}
          /\ jobs = <<>>
          /\ DOMAIN fs = {}
          /\ output.kind = "none"
          /\ (pc = "raised") => "ERROR: Error initializing OD Cost Matrix analysis." \in log

\* The validation failed with chunks waiting to be submitted
C9_Witness ==
    /\ pc = "raised"
    /\ ~TimeBased
    /\ total_jobs > 1

\* C10: the chunks are the Cartesian product of the ranges and the start times,
\* each submitted once; completed_jobs counts the completions observed, equals
\* succeeded + failed outcomes while no worker has raised, and equals
\* total_jobs = |origin ranges| * |destination ranges| * |start times| at the end.
C10_ChunkUniverseAndCounts ==
    Constructed =>
        /\ Range(chunks) = {<<o, d, t>> : o \in Range(origin_ranges),
                                           d \in Range(destination_ranges),
                                           t \in Range(start_times)}
        /\ \A k \in DOMAIN jobs : k \in DOMAIN chunks
        /\ total_jobs = Len(chunks)
        /\ total_jobs = Len(origin_ranges) * Len(destination_ranges) * Len(start_times)
        /\ Len(jobs) <= total_jobs
        /\ (pc \in {"collect", "shutdown", "postprocess", "cleanup", "done"})
              => Len(jobs) = total_jobs
        /\ completed_jobs = Len(collected)
        /\ \A i, j \in DOMAIN collected : i # j => collected[i] # collected[j]
        /\ (RaisedJobs \cap Collected = {}) =>
              completed_jobs = Len(od_line_files) + Cardinality(FailedJobs \cap Collected)
        /\ (pc \in {"postprocess", "cleanup", "done"}) => completed_jobs = total_jobs

\* Three chunks were completed out of submission order, with both outcomes
C10_Witness ==
    /\ pc = "done"
    /\ completed_jobs = 3
    /\ ~IsAscending(collected)
    /\ Len(od_line_files) >= 1
    /\ FailedJobs # {}

\* ---------------------------------------------------------------- C11 .. C20
\* The accessibility aggregator has run on at least one result file
AccessibilityDone ==
    pc = "cleanup" /\ tool = AccessibilityTool /\ output.kind = "accessibility"

\* The departure instants at which a successful chunk's result file holds (o, d)
InstantsReached(o, d) ==
    {t \in Range(start_times) :
        \E k \in EngineOk : chunks[k][3] = t /\ <<o, d>> \in engine[k].lines}

\* result_df after the loop over the result files, 0 for a pair without a row
TimesReached(o, d) ==
    LET result_df == CombineFiles(fs, od_line_files, << >>)
    IN IF <<o, d>> \in DOMAIN result_df THEN result_df[<<o, d>>] ELSE 0

\* C11: TimesReached of every (origin, destination) pair is the number of
\* departure instants at which a successful chunk's result file contains the
\* pair, and lies in 0..number of start times.
C11_TimesReachedCountsInstants ==
    AccessibilityDone =>
        /\ DOMAIN CombineFiles(fs, od_line_files, << >>)
              \subseteq origins \X DOMAIN destinations
        /\ \A o \in origins, d \in DOMAIN destinations :
              /\ TimesReached(o, d) = Cardinality(InstantsReached(o, d))
              /\ TimesReached(o, d) \in 0..Len(start_times)

\* Of three instants a pair was reached at two, one chunk having failed
C11_Witness ==
    /\ AccessibilityDone
    /\ Len(start_times) = 3
    /\ EngineFail # {}
    /\ \E o \in origins, d \in DOMAIN destinations : TimesReached(o, d) = 2
    /\ \E o \in origins, d \in DOMAIN destinations : TimesReached(o, d) = 0

\* The weight of a destination in the statistics: 1 without a weight field
StatWeight(d) == IF weight_field THEN destinations[d] ELSE 1

\* The sum of the weights of all destinations of the input; NULL is no weight
TotalDestinationWeight ==
    LET ds == {d \in DOMAIN destinations : ~weight_field \/ destinations[d] # NullWeight}
    IN SumOver(ds, [d \in ds |-> StatWeight(d)])

WeightSum(ds) == SumOver(ds, [d \in ds |-> StatWeight(d)])

\* The quotient q is the number a / b
IsQuotient(q, a, b) == q.den # 0 /\ q.num * b = a * q.den

\* C12: TotalDests is the sum of the weights of the destinations reached at least
\* once, and PercDests is 100 * TotalDests / total destination weight, the total
\* being taken over all destinations of the input (where that total is not 0,
\* so that the quotient is defined).
C12_TotalAndPercentOfDestinations ==
    AccessibilityDone =>
        \A o \in origins :
           /\ output.fields[o].TotalDests =
                 WeightSum({d \in DOMAIN destinations : InstantsReached(o, d) # {}})
           /\ (TotalDestinationWeight # 0) =>
                 IsQuotient(output.fields[o].PercDests,
                            100 * output.fields[o].TotalDests, TotalDestinationWeight)

\* With a weight field: an origin reached one destination of three, one of the
\* others having weight 0
C12_Witness ==
    /\ AccessibilityDone
    /\ weight_field
    /\ \E d \in DOMAIN destinations : destinations[d] = 0
    /\ \E o \in origins :
          /\ output.fields[o].TotalDests = 2
          /\ IsQuotient(output.fields[o].PercDests, 200, 5)

\* The destinations whose reach-count c satisfies c >= sampleCount * p / 100,
\* compared exactly
ReachedAtLeast(o, p) ==
    {d \in DOMAIN destinations :
        Cardinality(InstantsReached(o, d)) * 100 >= Len(start_times) * p}

IsZero(q) == q.num = 0 /\ q.den # 0

\* C13: DsAL{p}Perc is the sum of the weights of exactly the destinations whose
\* reach-count c satisfies c * 100 >= sampleCount * p, and PsAL{p}Perc is
\* 100 * DsAL{p}Perc / total destination weight; with 3 samples, uniform
\* weights, 2 destinations and one pair reached in 2 samples: TotalDests = 1,
\* PercDests = 50, DsAL10..DsAL60 = 1, DsAL70..DsAL90 = 0.
C13_ThresholdFields ==
    AccessibilityDone =>
        \A o \in origins :
           /\ \A p \in Percents :
                 /\ output.fields[o].DsAL[p] = WeightSum(ReachedAtLeast(o, p))
                 /\ (TotalDestinationWeight # 0) =>
                       IsQuotient(output.fields[o].PsAL[p],
                                  100 * output.fields[o].DsAL[p], TotalDestinationWeight)
           /\ ( /\ Len(start_times) = 3
                /\ ~weight_field
                /\ Cardinality(DOMAIN destinations) = 2
                /\ \E d1, d2 \in DOMAIN destinations :
                      /\ Cardinality(InstantsReached(o, d1)) = 2
                      /\ Cardinality(InstantsReached(o, d2)) = 0 )
              => /\ output.fields[o].TotalDests = 1
                 /\ IsQuotient(output.fields[o].PercDests, 50, 1)
                 /\ \A p \in {10, 20, 30, 40, 50, 60} :
                       /\ output.fields[o].DsAL[p] = 1
                       /\ IsQuotient(output.fields[o].PsAL[p], 50, 1)
                 /\ \A p \in {70, 80, 90} :
                       /\ output.fields[o].DsAL[p] = 0
                       /\ IsZero(output.fields[o].PsAL[p])

\* The scenario of the claim: 3 samples, 2 destinations of uniform weight, one
\* reached in samples 1 and 3 only, the other never
C13_Witness ==
    /\ AccessibilityDone
    /\ Len(start_times) = 3
    /\ ~weight_field
    /\ Cardinality(DOMAIN destinations) = 2
    /\ \E o \in origins, d1, d2 \in DOMAIN destinations :
          /\ InstantsReached(o, d1) = {start_times[1], start_times[3]}
          /\ InstantsReached(o, d2) = {}
          /\ output.fields[o].DsAL[60] = 1
          /\ output.fields[o].DsAL[70] = 0

Monotone(o) ==
    \A p, q \in Percents : p < q => output.fields[o].DsAL[p] >= output.fields[o].DsAL[q]

\* C14: for any origin and any destination weights admitted by the eligibility
\* filter (not NULL and not 0, or uniform weight 1), DsAL{p}Perc is
\* non-increasing as p goes 10, 20, ..., 90.
C14_ThresholdsNonIncreasing ==
    AccessibilityDone => \A o \in origins : Monotone(o)

\* C14 as amended: DsAL{p}Perc is non-increasing in p when no destination
\* has a negative weight.
C14_ThresholdsNonIncreasingNonNegative ==
    (AccessibilityDone
        /\ \A d \in DOMAIN destinations :
              ~weight_field \/ destinations[d] = NullWeight \/ destinations[d] >= 0)
    => \A o \in origins : Monotone(o)

\* With a weight field and no negative weight, the fields of an origin step down
C14_Witness ==
    /\ AccessibilityDone
    /\ weight_field
    /\ \A d \in DOMAIN destinations : destinations[d] = NullWeight \/ destinations[d] >= 0
    /\ \E o \in origins :
          /\ output.fields[o].DsAL[10] > output.fields[o].DsAL[50]
          /\ output.fields[o].DsAL[50] > output.fields[o].DsAL[90]

\* The origin appears in no row of any result file
NoRows(o) == \A d \in DOMAIN destinations : InstantsReached(o, d) = {}

\* C15: when the accessibility aggregation runs, every origin of the input has
\* one record; an origin in no row of any result file has all its fields 0, and
\* an origin that meets no pair at a threshold has 0 in that threshold's fields.
C15_EveryOriginHasARecord ==
    AccessibilityDone =>
        /\ DOMAIN output.fields = origins
        /\ \A o \in origins :
              /\ NoRows(o) =>
                    /\ output.fields[o].TotalDests = 0
                    /\ IsZero(output.fields[o].PercDests)
                    /\ \A p \in Percents :
                          /\ output.fields[o].DsAL[p] = 0
                          /\ IsZero(output.fields[o].PsAL[p])
              /\ \A p \in Percents :
                    (ReachedAtLeast(o, p) = {}) =>
                        /\ output.fields[o].DsAL[p] = 0
                        /\ IsZero(output.fields[o].PsAL[p])

\* One origin has rows, another one, whose chunks all failed, has none
C15_Witness ==
    /\ AccessibilityDone
    /\ \E o1, o2 \in origins :
          /\ ~NoRows(o1)
          /\ NoRows(o2)
          /\ \A k \in DOMAIN chunks :
                (chunks[k][1][1] <= o2 /\ o2 <= chunks[k][1][2]) => k \in EngineFail
          /\ output.fields[o1].DsAL[90] = 0
          /\ output.fields[o1].TotalDests > 0

EligibleDestinations ==
    {d \in DOMAIN destinations :
        ~weight_field \/ (destinations[d] # NullWeight /\ destinations[d] # 0)}

ReachesAllAlways(o) ==
    \A d \in EligibleDestinations : InstantsReached(o, d) = Range(start_times)

FullAccess(o) ==
    /\ output.fields[o].TotalDests = TotalDestinationWeight
    /\ IsQuotient(output.fields[o].PercDests, 100, 1)
    /\ \A p \in Percents :
          /\ output.fields[o].DsAL[p] = output.fields[o].TotalDests
          /\ IsQuotient(output.fields[o].PsAL[p], 100, 1)

TravelTimeDone == pc = "cleanup" /\ tool = TravelTimeTool /\ output.kind = "travel_time"

\* The rows for the pair (o, d) in the successful result files of the origin
\* range of o: one (chunk, travel time) per row
PairRows(o, d) ==
    UNION {{<<k, r[3]>> : r \in {x \in engine[k].lines : x[1] = o /\ x[2] = d}} :
              k \in {j \in EngineOk : chunks[j][1][1] <= o /\ o <= chunks[j][1][2]}}

\* C17: in travel-time mode every pair with a row in a successful result file
\* has one output row; its count is the number of rows for the pair over the
\* successful result files of the pair's origin range, min and max are the least
\* and greatest of those travel times and mean * count is their sum; travel
\* times 10 and 20 give count = 2, min = 10, max = 20, mean = 15.
C17_TravelTimeStatistics ==
    TravelTimeDone =>
        /\ \A o \in origins, d \in DOMAIN destinations :
              Cardinality({i \in DOMAIN output.rows :
                              output.rows[i].OriginOID = o
                              /\ output.rows[i].DestinationOID = d})
                 = IF PairRows(o, d) = {} THEN 0 ELSE 1
        /\ \A i \in DOMAIN output.rows :
              LET row == output.rows[i]
                  rows == PairRows(row.OriginOID, row.DestinationOID)
                  times == {e[2] : e \in rows}
              IN /\ row.count = Cardinality(rows)
                 /\ row.min \in times /\ \A t \in times : row.min <= t
                 /\ row.max \in times /\ \A t \in times : row.max >= t
                 /\ row.mean.den # 0
                 /\ row.mean.num * row.count = SumOver(rows, [e \in rows |-> e[2]]) * row.mean.den
                 /\ (Cardinality(rows) = 2 /\ times = {10, 20})
                       => (row.count = 2 /\ row.min = 10 /\ row.max = 20
                           /\ IsQuotient(row.mean, 15, 1))

\* Two result files of one origin range report 10 and 20 for a pair, while
\* another origin range has rows of its own
C17_Witness ==
    /\ TravelTimeDone
    /\ Len(origin_ranges) = 2
    /\ \E i, j \in DOMAIN output.rows :
          /\ output.rows[i].OriginOID # output.rows[j].OriginOID
          /\ output.rows[i].count = 2
          /\ output.rows[i].min = 10
          /\ output.rows[i].max = 20

NoOutputWarning == "WARNING: All OD Cost Matrix solves failed, so no output was produced."
FinishedMessage == "INFO: Finished calculating OD Cost Matrices."

\* C18: when every chunk has completed and od_line_files is empty (an empty
\* chunk universe included), no aggregator runs and nothing is output, the
\* warning is logged, cleanup runs and the run finishes normally: it never
\* raises for lack of results.
C18_NoResultsNoAggregation ==
    /\ (PostProcessed /\ od_line_files = <<>>) =>
          /\ output.kind = "none"
          /\ NoOutputWarning \in log
          /\ (pc = "done") => FinishedMessage \in log
    /\ (NoOutputWarning \in log) => (od_line_files = <<>> /\ SucceededJobs = {})
    /\ (pc = "raised" /\ TimeBased) => RaisedJobs # {}

\* The run has finished although the solves of its two or more chunks all failed
C18_Witness ==
    /\ pc = "done"
    /\ total_jobs >= 2
    /\ EngineFail = 1..total_jobs
    /\ od_line_files = <<>>
    /\ FinishedMessage \in log

\* C19: every result file that a chunk has written is still on disk when the
\* run ends, successfully or with an error.
C19_ResultFilesPreserved ==
    (pc \in {"done", "raised"}) => \A k \in EngineOk : ResultPath(k) \in DOMAIN fs

\* C19 as amended: every result file written is on disk until the cleanup of a
\* successful run; it is still there when the run ends with an error, and when
\* it ends successfully with an output folder of its own (out_na_folder). The
\* cleanup of a successful run may delete the result files of the scratch folder.
C19_ResultFilesPreservedOutsideScratch ==
    \A k \in EngineOk : ResultPath(k) \in DOMAIN fs \/ (pc = "done" /\ ~out_na_folder)

\* A successful run with an output folder of its own: the scratch folder is
\* gone, the result files are there
C19_Witness ==
    /\ pc = "done"
    /\ out_na_folder
    /\ Cardinality(EngineOk) >= 2
    /\ ScratchFiles(fs) = {}
    /\ \A k \in EngineOk : ResultPath(k) \in DOMAIN fs

\* C20: deleting the scratch directory is best-effort: whatever the deletion
\* leaves behind, the cleanup step does not raise, leaves the aggregated
\* output as it is, and the run reports normal completion.
C20_CleanupIsBestEffort ==
    [][(pc = "cleanup") =>
          (pc' = "done" /\ output' = output /\ FinishedMessage \in log')]_vars

\* The run has finished with its output although files stayed in the scratch
\* folder
C20_Witness ==
    /\ pc = "done"
    /\ output.kind # "none"
    /\ ScratchFiles(fs) # {}
    /\ FinishedMessage \in log

\* ---------------------------------------------------------------- C21 .. C30
\* The files a step creates, and whether it leaves the files there were alone
NewFiles == (DOMAIN fs') \ (DOMAIN fs)
OldFilesUntouched == \A q \in DOMAIN fs : q \in DOMAIN fs' /\ fs'[q] = fs[q]

\* A step of the worker process that executes chunk k
WorkerStep(k) == k \in DOMAIN jobs /\ k \in DOMAIN jobs' /\ jobs'[k] # jobs[k]

\* C21: a step of solve_od_cost_matrix for chunk k creates the job's own log
\* file when it starts, exactly one result file when the solve succeeds and no
\* file when it fails; it changes no file that exists, no other job, and nothing
\* of the scheduler (od_line_files, counters, log, output).
C21_WorkerSideEffects ==
    [][\A k \in DOMAIN jobs : WorkerStep(k) =>
          /\ UNCHANGED mainVars
          /\ \A j \in DOMAIN jobs : j # k => jobs'[j] = jobs[j]
          /\ OldFilesUntouched
          /\ (jobs[k].state = "queued") =>
                /\ NewFiles = {jobs'[k].result.logFile}
                /\ fs'[jobs'[k].result.logFile].kind = "log"
          /\ (jobs[k].state = "running") =>
                /\ jobs[k].result.logFile \in DOMAIN fs'
                /\ (engine'[k].result = "ok") =>
                      /\ NewFiles = {ResultPath(k)}
                      /\ fs'[ResultPath(k)].kind = "csv"
                      /\ fs'[ResultPath(k)].writers = {jobs[k].result.jobId}
                      /\ jobs'[k].result.outputLines = ResultPath(k)
                /\ (engine'[k].result = "fail") =>
                      /\ NewFiles = {}
                      /\ jobs'[k].result.outputLines = NoPath]_vars

\* One chunk succeeded and another failed while the loop is going on: a log
\* file for each, one result file
C21_Witness ==
    /\ pc = "collect"
    /\ EngineOk # {}
    /\ EngineFail # {}
    /\ Cardinality(CsvFilesOnDisk) = Cardinality(EngineOk)
    /\ \A k \in EngineOk \cup EngineFail : jobs[k].result.logFile \in LogFilesOnDisk

\* The files the jobs have written so far: a log file per started job, a
\* result file per successful solve
WrittenFiles ==
    {jobs[k].result.logFile : k \in {j \in Submitted : jobs[j].state # "queued"}}
        \cup {ResultPath(k) : k \in EngineOk}

\* C22: an aggregator runs only when every chunk of the universe has completed
\* and has been collected, and no worker is writing; the one that has run is the
\* one of the tool; no file is deleted before the aggregation step is over.
C22_StepsAreOrdered ==
    /\ (pc = "postprocess" \/ output.kind # "none") =>
          /\ Len(jobs) = total_jobs
          /\ Finished = 1..total_jobs
          /\ Collected = 1..total_jobs
          /\ Running(jobs) = {}
    /\ (output.kind # "none") =>
          /\ PostProcessed
          /\ (tool = AccessibilityTool) => output.kind = "accessibility"
          /\ (tool = TravelTimeTool) => output.kind = "travel_time"
    /\ (pc # "done") => WrittenFiles \subseteq DOMAIN fs

\* The travel-time aggregator has run on the files of two or more chunks, and
\* the scratch folder was deleted afterwards
C22_Witness ==
    /\ pc = "done"
    /\ tool = TravelTimeTool
    /\ output.kind = "travel_time"
    /\ total_jobs >= 2
    /\ ~out_na_folder
    /\ DOMAIN fs = {}

\* The run is over: completion was reported, or an error reached the caller
Terminated == pc \in {"done", "raised"}

\* C23: under fair scheduling, every submitted chunk eventually completes
\* (success, routine failure or raise) and the run eventually terminates, with
\* completion reported after cleanup or with an error raised.
C23_EventuallyTerminates ==
    <>[](/\ Terminated
         /\ \A k \in DOMAIN jobs : jobs[k].state = "finished"
         /\ (pc = "done") => "INFO: Finished calculating OD Cost Matrices." \in log)

\* A run of two chunks on one worker process ended with a worker's error
\* after every chunk had completed
C23_Witness ==
    /\ pc = "raised"
    /\ max_processes = 1
    /\ total_jobs = 2
    /\ Finished = 1..total_jobs
    /\ RaisedJobs # {}

\* The tool is a name of the enum; the time window can be expanded
ToolIsValid == tool \in {AccessibilityTool, TravelTimeTool}
WindowIsValid ==
    time_window.tokens_ok /\ time_window.increment > 0
        /\ time_window.start <= time_window.end

\* Nothing of the run exists: no folder, no range, no chunk, no job, no file
NothingDispatched ==
    /\ folders = {}
    /\ origin_ranges = <<>> /\ destination_ranges = <<>>
    /\ chunks = <<>> /\ total_jobs = 0
    /\ jobs = <<>>
    /\ DOMAIN fs = {}

\* C24: ParallelODCalculator.__init__ raises for an invalid tool selector and for
\* a time window that cannot be expanded, with no scratch folder made, no range
\* partitioned and no chunk built; it succeeds for valid ones only; ODCostMatrix
\* raises 'Invalid OD Cost Matrix tool.' for a tool that is neither mode, before
\* it opens a log file.
C24_ConfigurationErrorsAreEager ==
    /\ (pc = "validate") => (ToolIsValid /\ WindowIsValid /\ ScratchFolder \in folders)
    /\ (pc = "raised" /\ error \in {"KeyError", "ValueError"}) =>
          /\ ~ToolIsValid \/ ~WindowIsValid
          /\ NothingDispatched
          /\ (error = "KeyError") <=> ~ToolIsValid
    /\ (pc = "solver") => ToolIsValid
    /\ (pc = "raised" /\ error \notin {"KeyError", "ValueError"}) =>
          /\ error = "ValueError: Invalid OD Cost Matrix tool."
          /\ ~ToolIsValid
          /\ DOMAIN fs = {}
          /\ uuid_count = 0

\* The constructor raised for a window whose increment is 0, the tool being valid
C24_Witness ==
    /\ pc = "raised"
    /\ error = "ValueError"
    /\ ToolIsValid
    /\ time_window.increment = 0
    /\ time_window.tokens_ok
    /\ folders = {}

\* The window's end is on the grid of the increment
WindowIsAligned ==
    (time_window.end - time_window.start) % time_window.increment = 0

\* C25: for a valid time window the start times are strictly increasing (hence
\* without duplicates), begin with the window's start, and are
\* floor((end - start) / increment) + 1 many when the end is on the increment
\* grid; their number is the factor of total_jobs and every chunk has one of them.
C25_StartTimesOfValidWindow ==
    (pc = "validate") =>
        /\ Len(start_times) >= 1
        /\ start_times[1] = time_window.start
        /\ \A i, j \in DOMAIN start_times : i < j => start_times[i] < start_times[j]
        /\ WindowIsAligned =>
              Len(start_times) =
                 ((time_window.end - time_window.start) \div time_window.increment) + 1
        /\ total_jobs = Len(origin_ranges) * Len(destination_ranges) * Len(start_times)
        /\ {chunks[k][3] : k \in DOMAIN chunks} = Range(start_times)

\* A window of 4 minutes with an increment of 2: three start times
C25_Witness ==
    /\ pc = "validate"
    /\ time_window.end - time_window.start = 4
    /\ time_window.increment = 2
    /\ Len(start_times) = 3
    /\ total_jobs = Len(origin_ranges) * Len(destination_ranges) * 3

\* C26: when no origin, or no destination that passes the filter, survives,
\* _get_oid_ranges_for_input returns an empty list for that input, there is no
\* chunk, total_jobs is 0 and no chunk is ever submitted or solved.
C26_NoIdentifiersNoChunks ==
    (pc \notin {"construct"} /\ error \notin {"KeyError", "ValueError"}) =>
        /\ (SurvivingOrigins = {}) => origin_ranges = <<>>
        /\ (SurvivingDestinations = {}) => destination_ranges = <<>>
        /\ (SurvivingOrigins = {} \/ SurvivingDestinations = {}) =>
              /\ chunks = <<>>
              /\ total_jobs = 0
              /\ jobs = <<>>
              /\ CsvFilesOnDisk = {}
              /\ od_line_files = <<>>

\* A finished run in which the only destination has weight 0: there are origins,
\* but no chunk
C26_Witness ==
    /\ pc = "done"
    /\ weight_field
    /\ origins # {}
    /\ DOMAIN destinations # {}
    /\ SurvivingDestinations = {}
    /\ total_jobs = 0

\* C27: with an output folder of the caller, every result file is written in
\* it, none in the scratch folder, and none is ever deleted: cleanup removes
\* the scratch folder with the log files only. Without it the result files are
\* in the scratch folder and are all there until post-processing is over.
C27_ResultFileLocation ==
    /\ out_na_folder =>
          /\ \A q \in CsvFilesOnDisk : q.dir = OutNaFolder
          /\ \A q \in LogFilesOnDisk : q.dir = ScratchFolder
          /\ \A k \in EngineOk : ResultPath(k) \in CsvFilesOnDisk
          /\ (pc \in {"validate", "submit", "collect", "shutdown", "postprocess",
                     "cleanup", "done"}) => OutNaFolder \in folders
    /\ ~out_na_folder =>
          /\ \A q \in DOMAIN fs : q.dir = ScratchFolder
          /\ (pc # "done") => \A k \in EngineOk : ResultPath(k) \in CsvFilesOnDisk

\* A finished run with an output folder: the scratch folder and the log files
\* are gone, the result files are in the output folder
C27_Witness ==
    /\ pc = "done"
    /\ out_na_folder
    /\ output.kind # "none"
    /\ ScratchFolder \notin folders
    /\ LogFilesOnDisk = {}
    /\ CsvFilesOnDisk # {}
    /\ \A q \in CsvFilesOnDisk : q.dir = OutNaFolder

\* A fatal worker error has been caught and not yet left the with block
FatalErrorCaught == pc = "shutdown"

NullOrZeroDestinations ==
    {d \in DOMAIN destinations : destinations[d] = NullWeight \/ destinations[d] = 0}

\* The destinations the ranges cover, and those some chunk's layer selects
PartitionedDestinations ==
    {d \in DOMAIN destinations :
        \E i \in DOMAIN destination_ranges : InRange(d, destination_ranges[i])}
ChunkDestinations ==
    UNION {SelectedDestinations(destinations, dest_where, chunks[k]) : k \in DOMAIN chunks}

\* The weight filter as the constructor and the chunks apply it
WeightFilterHolds ==
    /\ weight_field =>
          /\ SurvivingDestinations \cap NullOrZeroDestinations = {}
          /\ ChunkDestinations \cap NullOrZeroDestinations = {}
    /\ ~weight_field =>
          /\ SurvivingDestinations = DOMAIN destinations
          /\ PartitionedDestinations = DOMAIN destinations
          /\ (origin_ranges # <<>>) => ChunkDestinations = DOMAIN destinations

\* C29: with a weight field, the destinations of NULL or zero weight are left
\* out of the partitioning and of every chunk's selection; without a weight
\* field no destination is left out.
C29_WeightFilter == Constructed => WeightFilterHolds

\* The same statement restricted to datasets without the ObjectID 0: it holds
C29_WeightFilterPositiveIds == (Constructed /\ 0 \notin origins) => WeightFilterHolds

\* With it, no result file has a row of a destination of NULL or zero weight
\* and the statistics are those of the other destinations alone
C29_NoExcludedDestinationInResults ==
    weight_field =>
        /\ \A q \in CsvFilesOnDisk : \A r \in fs[q].rows : r[2] \notin NullOrZeroDestinations
        /\ (output.kind = "accessibility") =>
              \A o \in origins :
                 output.fields[o].TotalDests =
                    LET ds == {d \in (DOMAIN destinations) \ NullOrZeroDestinations :
                                  ReachCount(o, d) > 0}
                    IN SumOver(ds, [d \in ds |-> destinations[d]])

\* The messages with the common prefix and the others, in the engine's order
IsCommonMessage(msg) == msg[1] = CommonMsgPrefix
OtherMessages == SelectSeq(messages.solverMessages, LAMBDA m : ~IsCommonMessage(m))
RemovedCount == Len(messages.solverMessages) - Len(OtherMessages)

\* C30: ODCostMatrix.solve removes every message that starts with the common
\* prefix, keeps the others in their order, and appends one summary with the
\* number k of removed messages when k > 0, none when k = 0: at most
\* (number of other messages) + 1 messages are reported.
C30_MessagesCollapsed ==
    (messages.state = "handled") =>
        /\ (RemovedCount = 0) => messages.solve_msgs = OtherMessages
        /\ (RemovedCount > 0) =>
              messages.solve_msgs =
                 Append(OtherMessages,
                        <<"No destinations were found for ">> \o Digits(RemovedCount)
                            \o <<" origins.">>)
        /\ Len(messages.solve_msgs) <= Len(OtherMessages) + 1
        /\ \A i \in DOMAIN messages.solve_msgs : ~IsCommonMessage(messages.solve_msgs[i])

\* Two common messages around another one were collapsed into the other one
\* and a summary
C30_Witness ==
    /\ messages.state = "handled"
    /\ Len(messages.solverMessages) = 3
    /\ IsCommonMessage(messages.solverMessages[1])
    /\ ~IsCommonMessage(messages.solverMessages[2])
    /\ IsCommonMessage(messages.solverMessages[3])
    /\ Len(messages.solve_msgs) = 2
    /\ messages.solve_msgs[1] = messages.solverMessages[2]

\* ------------------------------------------------------------- C31 .. C35
\* The index of the origin range that holds the origin o
RangeIndexOf(o) == CHOOSE i \in DOMAIN origin_ranges : InRange(o, origin_ranges[i])

\* The origin ranges that have a successful result file with rows
RangesWithRows ==
    {i \in DOMAIN origin_ranges :
        \E k \in EngineOk : chunks[k][1] = origin_ranges[i] /\ engine[k].lines # {}}

\* The number of rows over all the successful result files
FileRowCount ==
    LET F == Range(od_line_files)
    IN SumOver(F, [f \in F |-> Cardinality(ReadCsv(fs, f))])

\* C31: in travel-time aggregation every row of every successful result file is
\* counted in exactly one output row (the counts of the table sum to the number
\* of file rows), and that row belongs to the origin range named in the file:
\* ranges whose bounds are a textual prefix of another's (1..1 and 10..10) do not
\* take each other's files. The table lists the origin ranges in their order,
\* the rows of one range before those of the next and sorted by (origin,
\* destination) within a range; a range without result files contributes no row
\* and does not stop the later ones; no (origin, destination) pair has two rows.
C31_GroupsByOriginRange ==
    TravelTimeDone =>
        LET rows == output.rows
        IN /\ SumOver(DOMAIN rows, [i \in DOMAIN rows |-> rows[i].count]) = FileRowCount
           /\ \A i \in DOMAIN rows :
                 /\ rows[i].OriginOID \in origins
                 /\ RangeIndexOf(rows[i].OriginOID) \in RangesWithRows
                 /\ rows[i].count = Cardinality(PairRows(rows[i].OriginOID,
                                                         rows[i].DestinationOID))
           /\ {RangeIndexOf(rows[i].OriginOID) : i \in DOMAIN rows} = RangesWithRows
           /\ \A i, j \in DOMAIN rows :
                 i < j =>
                    /\ RangeIndexOf(rows[i].OriginOID) <= RangeIndexOf(rows[j].OriginOID)
                    /\ RangeIndexOf(rows[i].OriginOID) = RangeIndexOf(rows[j].OriginOID)
                          => PairLess(<<rows[i].OriginOID, rows[i].DestinationOID>>,
                                      <<rows[j].OriginOID, rows[j].DestinationOID>>)
                    /\ <<rows[i].OriginOID, rows[i].DestinationOID>>
                          # <<rows[j].OriginOID, rows[j].DestinationOID>>

\* The origin ranges 1..1 and 10..10: the first has no result file, the second
\* has two, and the table holds the rows of the second
C31_Witness ==
    /\ TravelTimeDone
    /\ origin_ranges = <<(<<1, 1>>), (<<10, 10>>)>>
    /\ ~\E k \in EngineOk : chunks[k][1] = <<1, 1>>
    /\ Cardinality({k \in EngineOk : chunks[k][1] = <<10, 10>>}) = 2
    /\ Len(output.rows) = 1
    /\ output.rows[1].OriginOID = 10
    /\ output.rows[1].count = 2

\* The jobs whose future holds a JobOutcome: solve_od_cost_matrix returned
ReturnedJobs == {k \in Finished : ~jobs[k].result.raised}

\* p is the path of a result file that was written to its last row and closed
CompleteResultFile(p) == p \in DOMAIN fs /\ fs[p].kind = "csv" /\ fs[p].complete

\* The jobs whose export raised: their result file was opened and never finished
ExportRaisedJobs ==
    {k \in DOMAIN jobs : ResultPath(k) \in DOMAIN fs /\ ~fs[ResultPath(k)].complete}

\* C32: in every outcome that solve_od_cost_matrix returns, solveSucceeded is
\* true exactly when outputLines is not empty, and then outputLines is the path
\* of the chunk's result file, which holds all the Lines of the solve and is
\* closed (until the cleanup deletes it); the outcome of a failed solve has
\* outputLines empty; a chunk whose export raised has no outcome, its future
\* holds the exception.
C32_OutcomeMatchesResultFile ==
    /\ \A k \in ReturnedJobs :
          LET r == jobs[k].result
          IN /\ r.solveSucceeded <=> (r.outputLines # NoPath)
             /\ r.solveSucceeded <=> (engine[k].result = "ok")
             /\ (r.solveSucceeded /\ pc # "done") =>
                   /\ r.outputLines = ResultPath(k)
                   /\ CompleteResultFile(r.outputLines)
                   /\ ReadCsv(fs, r.outputLines) = engine[k].lines
             /\ ~r.solveSucceeded => r.outputLines = NoPath
    /\ \A k \in ExportRaisedJobs :
          /\ k \in Finished
          /\ k \notin ReturnedJobs
          /\ jobs[k].result.raised

\* One chunk returned a successful outcome, one a failed outcome, and the export
\* of a third raised and left its result file unfinished
C32_Witness ==
    /\ \E k \in ReturnedJobs :
          /\ jobs[k].result.solveSucceeded
          /\ CompleteResultFile(jobs[k].result.outputLines)
    /\ \E k \in ReturnedJobs : ~jobs[k].result.solveSucceeded
    /\ \E k \in ExportRaisedJobs : jobs[k].result.raised

\* C33: once a worker has raised, the run is in the pool (submitting, collecting,
\* leaving the with block) or has ended with the error: no aggregator has run
\* (the statistic fields of the origins and the output CSV are as before the
\* run), the scratch folder exists, and the log file of every started job and
\* the complete result file of every successful job are on disk.
C33_NoAggregationAfterWorkerRaise ==
    RaisedJobs # {} =>
        /\ pc \in {"submit", "collect", "shutdown", "raised"}
        /\ output = [kind |-> "none"]
        /\ ScratchFolder \in folders
        /\ \A k \in DOMAIN jobs :
              jobs[k].state # "queued" => jobs[k].result.logFile \in LogFilesOnDisk
        /\ \A k \in SucceededJobs :
              /\ CompleteResultFile(ResultPath(k))
              /\ ReadCsv(fs, ResultPath(k)) = engine[k].lines

\* The run has ended with the error of a worker after another chunk succeeded
\* and its path was stored: nothing was aggregated, the files are in the
\* scratch folder
C33_Witness ==
    /\ pc = "raised"
    /\ RaisedJobs # {}
    /\ od_line_files # <<>>
    /\ output.kind = "none"
    /\ ScratchFolder \in folders
    /\ \E k \in SucceededJobs : ResultPath(k).dir = ScratchFolder /\ ResultPath(k) \in DOMAIN fs

\* The departure instants with a successful chunk, and those whose chunks all failed
SucceededInstants == {chunks[k][3] : k \in EngineOk}
FailedInstants == Range(start_times) \ SucceededInstants

\* No destination has a negative weight (NULL and 0 are filtered out)
NoNegativeWeight ==
    \A d \in DOMAIN destinations :
       ~weight_field \/ destinations[d] = NullWeight \/ destinations[d] >= 0

\* The Lines a successful solve of chunk k can hold
PossibleLines(k) ==
    SUBSET {LineRow(tool, start_times, o, d, chunks[k][3]) :
               o \in SelectedOrigins(origins, chunks[k]),
               d \in SelectedDestinations(destinations, dest_where, chunks[k])}

\* The statistics of the same run with the outcomes eng of the chunks
AccessibilityOf(eng) ==
    LET js == [j \in 1..total_jobs |->
                 FinishedJob(out_na_folder, chunks[j], j + 1, eng[j])]
        files == SortFiles(FilesAfter(js, total_jobs))
    IN calculate_accessibility_matrix_outputs(
          DiskAfter(out_na_folder, chunks, eng, total_jobs), files, origins,
          destinations, weight_field, SampleCount(start_times, files))

\* C34: the sample count of every decile threshold is the number of departure
\* instants of the time window, whether or not some chunk of an instant
\* succeeded: DsAL{p}Perc sums the destinations reached at c instants with
\* c * 100 >= len(start_times) * p. So, when no weight is negative, a failed chunk
\* never gives a higher DsAL{p}Perc than the same chunk would have given had it
\* succeeded, whatever Lines it had found.
C34_SampleCountIsWholeWindow ==
    AccessibilityDone =>
        /\ \A o \in origins, p \in Percents :
              output.fields[o].DsAL[p] =
                 WeightSum({d \in DOMAIN destinations :
                               Cardinality(InstantsReached(o, d)) * 100
                                  >= Len(start_times) * p})
        /\ NoNegativeWeight =>
              \A k \in EngineFail : \A L \in PossibleLines(k) :
                 LET repaired == AccessibilityOf([engine EXCEPT
                                    ![k] = [result |-> "ok", lines |-> L]])
                 IN \A o \in origins, p \in Percents :
                       output.fields[o].DsAL[p] <= repaired[o].DsAL[p]

\* Two departure instants, every chunk of one of them failed: a destination
\* reached at the other instant counts for the thresholds up to 50 percent only
C34_Witness ==
    /\ AccessibilityDone
    /\ Len(start_times) = 2
    /\ Cardinality(FailedInstants) = 1
    /\ \E o \in origins :
          /\ output.fields[o].TotalDests > 0
          /\ output.fields[o].DsAL[50] = output.fields[o].TotalDests
          /\ output.fields[o].DsAL[60] = 0

\* x <= y for two quotients with positive denominators
RatioLeq(x, y) == x.den > 0 /\ y.den > 0 /\ x.num * y.den <= y.num * x.den

\* C35: when no destination has a negative weight, for every origin and every p
\* in 10, 20, ..., 90: 0 <= DsAL{p}Perc <= TotalDests <= total destination weight
\* and 0 <= PsAL{p}Perc <= PercDests <= 100; and with at most 10 departure
\* instants DsAL10Perc = TotalDests.
C35_FieldRanges ==
    (AccessibilityDone /\ NoNegativeWeight) =>
        \A o \in origins :
           LET f == output.fields[o]
           IN /\ f.TotalDests <= TotalDestinationWeight
              /\ RatioLeq(f.PercDests, Ratio(100, 1))
              /\ \A p \in Percents :
                    /\ 0 <= f.DsAL[p]
                    /\ f.DsAL[p] <= f.TotalDests
                    /\ RatioLeq(Ratio(0, 1), f.PsAL[p])
                    /\ RatioLeq(f.PsAL[p], f.PercDests)
              /\ (Len(start_times) <= 10) => f.DsAL[10] = f.TotalDests

\* With a weight field: of two instants an origin reached one destination at
\* both and another at one, a third one never
C35_Witness ==
    /\ AccessibilityDone
    /\ weight_field
    /\ NoNegativeWeight
    /\ Len(start_times) = 2
    /\ \E o \in origins :
          LET f == output.fields[o]
          IN /\ 0 < f.DsAL[90]
             /\ f.DsAL[90] < f.DsAL[10]
             /\ f.DsAL[10] = f.TotalDests
             /\ f.PsAL[90].num > 0
             /\ ~RatioLeq(f.PercDests, f.PsAL[90])

====
